---- MODULE Spec2Model ----
\* Verification model of the vru-kyber crate: field arithmetic (coefficient.rs),
\* polynomial arithmetic and NTT (block.rs, poly.rs), byte layouts
\* (block.rs, indcpa.rs, kem.rs) and the KEM operations (indcpa.rs, kem.rs).
EXTENDS Integers, Sequences, FiniteSets, TLC

VARIABLES
    pc,               \* name of the last operation that completed
    overflow_checks,  \* build profile: TRUE when `-` on i16 panics on overflow
    arg_a,            \* first scalar argument (an i16)
    arg_rhs,          \* second scalar argument (an i16)
    ret,              \* result of the scalar operation
    poly_a,           \* normal-domain polynomial (Poly<32, true>)
    poly_b,           \* normal-domain polynomial (Poly<32, true>)
    ntt_a,            \* poly_a.ntt()
    ntt_b,            \* poly_b.ntt()
    prod,             \* ntt_a.mul_montgomery(&ntt_b)
    inv_prod,         \* prod.ntt(), back in the normal domain
    round_trip,       \* ntt_a.ntt(), back in the normal domain
    DIM,              \* the DIM of the parameter set Dim<DIM>
    sid,              \* which seeds the session uses
    sk,               \* kem::SecretKey from key_pair
    pk,               \* kem::PublicKey from key_pair
    ct,               \* the CipherText encapsulate returned
    ss,               \* the SharedSecret encapsulate returned
    tamper,           \* what the channel did to the ciphertext
    wire,             \* the bytes handed to CipherText::from_bytes
    received,         \* the CipherText the receiver decapsulates
    dec,              \* what decapsulate computed and returned
    prev,             \* the receiver's previous decapsulation
    runs,             \* number of decapsulations kept in prev
    ct_self,          \* left operand of CipherText::ct_eq
    ct_other,         \* right operand of CipherText::ct_eq
    eq,               \* result of ct_eq
    examined,         \* the (polynomial, index) pairs ct_eq compared
    input,            \* the byte string given to a deserializer
    outcome,          \* which deserializer ran and whether it panicked
    loaded            \* the object the deserializer returned

scalar_vars == <<arg_a, arg_rhs, ret>>
poly_vars == <<poly_a, poly_b, ntt_a, ntt_b, prod, inv_prod, round_trip>>
kem_vars == <<sid, sk, pk, ct, ss, tamper, wire, received, dec, prev, runs>>
eq_vars == <<ct_self, ct_other, eq, examined>>
deser_vars == <<input, outcome, loaded>>
kyber_vars == <<DIM, kem_vars, eq_vars, deser_vars>>
vars == <<pc, overflow_checks, scalar_vars, poly_vars, kyber_vars>>

----------------------------------------------------------------------------
\* Machine integers

I16 == -(2^15) .. (2^15 - 1)

InI16(x) == x >= -(2^15) /\ x <= 2^15 - 1

\* `x as i16`: keep the low 16 bits, read as two's complement
AsI16(x) == ((x + 2^15) % (2^16)) - 2^15

\* `x as u16`
AsU16(x) == x % (2^16)

\* low 16 bits of x * y for 0 <= y < 2^16 (i32::wrapping_mul followed by `as i16`
\* only keeps these bits); split so that no product leaves 31 bits
WrappingMulLow16(x, y) ==
    ((AsU16(x) * (y % 256)) + (((AsU16(x) * (y \div 256)) % 256) * 256)) % (2^16)

\* value standing for a computation that unwound with a panic
Panic == 2^20

\* `x as u8`
AsU8(x) == x % (2^8)

\* `x << n` on a u8 / on a u16: bits shifted out of the type are lost
Shl8(x, n) == (x * (2^n)) % (2^8)

Shl16(x, n) == (x * (2^n)) % (2^16)

\* `x >> n` on an unsigned value
Shr(x, n) == x \div (2^n)

\* `x | y` and `x & y` on unsigned values, bit by bit (a mask whose low
\* bits are 001 or 01 is taken three or two bits at a time)
RECURSIVE BitOr(_, _)
BitOr(x, y) ==
    IF x = 0 THEN y
    ELSE IF y = 0 THEN x
    ELSE (IF x % 2 = 1 \/ y % 2 = 1 THEN 1 ELSE 0) + 2 * BitOr(x \div 2, y \div 2)

RECURSIVE BitAnd(_, _)
BitAnd(x, y) ==
    IF x = 0 \/ y = 0 THEN 0
    ELSE IF y % 8 = 1 THEN (x % 2) + 8 * BitAnd(x \div 8, y \div 8)
    ELSE IF y % 4 = 1 THEN (x % 2) + 4 * BitAnd(x \div 4, y \div 4)
    ELSE (x % 2) * (y % 2) + 2 * BitAnd(x \div 2, y \div 2)

\* i16 `/`: the quotient is truncated towards zero
TruncDiv(x, y) == IF x >= 0 THEN x \div y ELSE -((-x) \div y)

----------------------------------------------------------------------------
\* coefficient.rs

Q == 3329

\* -inverse_mod(q, 2^16), the value the comment on Q_INV describes
Q_INV_negated == 2^16 - 62209

Q_INV == 62209

MONT == -1044

F == 1441

\* montgomery_reduce with the `as i16` of `ua` lost (ua read as u16)
montgomery_reduce_unsigned(a) ==
    LET ua == WrappingMulLow16(a, Q_INV)
        t  == a - ua * Q
    IN AsI16(t \div (2^16))

montgomery_reduce(a) ==
    LET ua == AsI16(WrappingMulLow16(a, Q_INV))
        t  == a - ua * Q
    IN AsI16(t \div (2^16))

\* the two operands of the final 16-bit subtraction `a - t as i16`
barrett_t(a) ==
    LET v == ((2^26) \div Q) + 1
        t == (v * a + 2^25) \div (2^26)
    IN AsI16(t * Q)

barrett_overflows(a) == ~InI16(a - barrett_t(a))

barrett_reduce(a) ==
    IF a = Panic THEN Panic
    ELSE IF barrett_overflows(a) /\ overflow_checks THEN Panic
    ELSE AsI16(a - barrett_t(a))

mul(self, rhs) ==
    IF self = Panic \/ rhs = Panic THEN Panic
    ELSE montgomery_reduce(self * rhs)

\* add without the Barrett reduction of the wrapped sum
add_wrapping(self, rhs) ==
    IF self = Panic \/ rhs = Panic THEN Panic
    ELSE AsI16(self + rhs)

add(self, rhs) ==
    IF self = Panic \/ rhs = Panic THEN Panic
    ELSE barrett_reduce(AsI16(self + rhs))

sub(self, rhs) ==
    IF self = Panic \/ rhs = Panic THEN Panic
    ELSE IF ~InI16(self - rhs) /\ overflow_checks THEN Panic
    ELSE AsI16(self - rhs)

\* pack without `u += (u >> 15) & Q`
pack_as_u16(self) == AsU16(self)

\* u += (u >> 15) & Q; u as u16
pack(self) == AsU16(IF self < 0 THEN self + Q ELSE self)

unpack(a) == AsI16(a)

\* compress without the rounding term Q / 2
compress_floor(X, self) == ((pack(self) * (2^X)) \div Q) % (2^X)

compress(X, self) == ((pack(self) * (2^X) + (Q \div 2)) \div Q) % (2^X)

\* decompress without the rounding term `add` = 2^(X - 1)
decompress_floor(X, b) == AsI16(((b % (2^X)) * Q) \div (2^X))

decompress(X, b) == AsI16(((b % (2^X)) * Q + 2^(X - 1)) \div (2^X))

\* compress_1 without the `+ Q / 2` that rounds to the nearest
compress_1_floor(self) ==
    IF self = Panic THEN Panic
    ELSE AsU8(TruncDiv(AsI16(AsI16(pack(self)) * 2), Q) % 2)

compress_1(self) ==
    LET t   == AsI16(AsI16(pack(self)) * 2)
        sum == t + (Q \div 2)
    IN IF self = Panic \/ (~InI16(sum) /\ overflow_checks) THEN Panic
       ELSE AsU8(TruncDiv(AsI16(sum), Q) % 2)

decompress_1(b) == IF b % 2 = 1 THEN (Q + 1) \div 2 ELSE 0

----------------------------------------------------------------------------
\* array.rs

\* Array::from_iter / Array::new: the items of the iterator stored in a
\* fixed-size array (the function is evaluated once, item by item)
Collect(f) == f @@ f

\* Rust evaluates `let` statements in program order: the value x is computed
\* before the expression e that uses it. A function with `let` statements is
\* written below as Let(v, LAMBDA x : rest) for each `let x = v; rest`.
Strict(x, e) == IF x = x THEN e ELSE e

----------------------------------------------------------------------------
\* block.rs, poly.rs: a polynomial is 32 blocks of 8 coefficients; coefficient
\* `index` is self.0[index / 8][index % 8], modelled as a function on 0..255

N == 256

Coeffs == 0 .. (N - 1)

ZETAS == <<
    -1044, -758, -359, -1517, 1493, 1422, 287, 202, -171, 622, 1577, 182, 962, -1202, -1474, 1468,
    573, -1325, 264, 383, -829, 1458, -1602, -130, -681, 1017, 732, 608, -1542, 411, -205, -1571,
    1223, 652, -552, 1015, -1293, 1491, -282, -1544, 516, -8, -320, -666, -1618, -1162, 126, 1469,
    -853, -90, -271, 830, 107, -1421, -247, -951, -398, 961, -1508, -725, 448, -1065, 677, -1275,
    -1103, 430, 555, 843, -1251, 871, 1550, 105, 422, 587, 177, -235, -291, -460, 1574, 1653, -246,
    778, 1159, -147, -777, 1483, -602, 1119, -1590, 644, -872, 349, 418, 329, -156, -75, 817, 1097,
    603, 610, 1322, -1285, -1465, 384, -1215, -136, 1218, -1335, -874, 220, -1187, -1659, -1185,
    -1530, -1278, 794, -1510, -854, -870, 478, -108, -308, 996, 991, 958, -1460, 1522, 1628 >>

\* ZETAS[k] with the source's 0-based index
Zeta(k) == ZETAS[k + 1]

HasPanic(p) == \E j \in Coeffs : p[j] = Panic

Poly_barrett_reduce(p) == Collect([j \in Coeffs |-> barrett_reduce(p[j])])

add_assign(self, rhs) == Collect([j \in Coeffs |-> add(self[j], rhs[j])])

sub_assign(self, rhs) == Collect([j \in Coeffs |-> sub(self[j], rhs[j])])

\* the exact (unwrapped) values of `self[i] - rhs[i]` that sub_assign hands
\* to the i16 subtraction of Coefficient::sub
sub_assign_differences(self, rhs) == { self[j] - rhs[j] : j \in Coeffs }

\* PolyBlock::mul with the sign of the twiddle not alternating between pairs
PolyBlock_mul_same_sign(x, y, base, zetas) ==
    << add(mul(x[base], y[base]), mul(mul(x[base + 1], y[base + 1]), zetas[1])),
       add(mul(x[base], y[base + 1]), mul(x[base + 1], y[base])),
       add(mul(x[base + 2], y[base + 2]), mul(mul(x[base + 3], y[base + 3]), zetas[1])),
       add(mul(x[base + 2], y[base + 3]), mul(x[base + 3], y[base + 2])),
       add(mul(x[base + 4], y[base + 4]), mul(mul(x[base + 5], y[base + 5]), zetas[2])),
       add(mul(x[base + 4], y[base + 5]), mul(x[base + 5], y[base + 4])),
       add(mul(x[base + 6], y[base + 6]), mul(mul(x[base + 7], y[base + 7]), zetas[2])),
       add(mul(x[base + 6], y[base + 7]), mul(x[base + 7], y[base + 6])) >>

\* PolyBlock::mul on the block starting at coefficient `base`
PolyBlock_mul(x, y, base, zetas) ==
    << add(mul(x[base], y[base]), mul(mul(x[base + 1], y[base + 1]), zetas[1])),
       add(mul(x[base], y[base + 1]), mul(x[base + 1], y[base])),
       sub(mul(x[base + 2], y[base + 2]), mul(mul(x[base + 3], y[base + 3]), zetas[1])),
       add(mul(x[base + 2], y[base + 3]), mul(x[base + 3], y[base + 2])),
       add(mul(x[base + 4], y[base + 4]), mul(mul(x[base + 5], y[base + 5]), zetas[2])),
       add(mul(x[base + 4], y[base + 5]), mul(x[base + 5], y[base + 4])),
       sub(mul(x[base + 6], y[base + 6]), mul(mul(x[base + 7], y[base + 7]), zetas[2])),
       add(mul(x[base + 6], y[base + 7]), mul(x[base + 7], y[base + 6])) >>

\* the exact values of the two subtractions of PolyBlock::mul on the block
\* starting at coefficient `base`
PolyBlock_mul_differences(x, y, base, zetas) ==
    { mul(x[base + 2], y[base + 2]) - mul(mul(x[base + 3], y[base + 3]), zetas[1]),
      mul(x[base + 6], y[base + 6]) - mul(mul(x[base + 7], y[base + 7]), zetas[2]) }

\* the exact values of every subtraction mul_montgomery performs
mul_montgomery_differences(self, rhs) ==
    UNION { PolyBlock_mul_differences(self, rhs, 8 * i,
                                      << Zeta(64 + 2 * i), Zeta(64 + 2 * i + 1) >>) :
            i \in 0 .. 31 }

mul_montgomery(self, rhs) ==
    LET array == Collect([i \in 0 .. 31 |->
                    PolyBlock_mul(self, rhs, 8 * i,
                                  << Zeta(64 + 2 * i), Zeta(64 + 2 * i + 1) >>)])
    IN Collect([j \in Coeffs |-> array[j \div 8][(j % 8) + 1]])

\* One pass of the `while start < 256` loop of the forward NTT for a given
\* len: the block starting at `start` uses ZETAS[k] with k = 128/len + start/(2 len)
ntt_layer(r, len) ==
    LET t == Collect([j \in Coeffs |->
                 IF ((j \div len) % 2) = 1
                 THEN mul(Zeta((128 \div len) + ((j - len) \div (2 * len))), r[j])
                 ELSE 0])
    IN Collect([j \in Coeffs |->
           IF ((j \div len) % 2) = 1
           THEN sub(r[j - len], t[j])
           ELSE add(r[j], t[j + len])])

\* the exact values of `r[j] - t`, t = zeta * r[j + len], for the block of
\* the forward NTT starting at `start`
ntt_differences(r, zeta, len, start) ==
    { r[j] - mul(zeta, r[j + len]) : j \in start .. (start + len - 1) }

RECURSIVE ntt_loop(_, _)
ntt_loop(r, len) ==
    IF len >= 2 THEN ntt_loop(ntt_layer(r, len), len \div 2) ELSE r

\* <Poly<32, true> as Ntt>::ntt
ntt(self) == Poly_barrett_reduce(ntt_loop(self, 128))

\* One pass of the `while start < 256` loop of the inverse NTT for a given
\* len: k counts down, the block at `start` uses ZETAS[256/len - 1 - start/(2 len)]
inv_ntt_layer(r, len) ==
    Collect([j \in Coeffs |->
        LET upper == ((j \div len) % 2) = 1
            lo    == IF upper THEN j - len ELSE j
            zeta  == Zeta((256 \div len) - 1 - (lo \div (2 * len)))
        IN IF upper THEN mul(zeta, sub(r[lo + len], r[lo]))
           ELSE add(r[lo], r[lo + len])])

\* the exact values of `r[j + len] - t`, t = r[j], for the block of the
\* inverse NTT starting at `start`
inv_ntt_differences(r, len, start) ==
    { r[j + len] - r[j] : j \in start .. (start + len - 1) }

RECURSIVE inv_ntt_loop(_, _)
inv_ntt_loop(r, len) ==
    IF len <= 128 THEN inv_ntt_loop(inv_ntt_layer(r, len), len * 2) ELSE r

\* the inverse NTT without its final pass that multiplies by F
inv_ntt_unscaled(self) == inv_ntt_loop(self, 2)

\* <Poly<32, false> as Ntt>::ntt
inv_ntt(self) ==
    LET r == inv_ntt_loop(self, 2)
    IN Collect([j \in Coeffs |-> mul(r[j], F)])

----------------------------------------------------------------------------
\* block.rs: byte layouts of one block of 8 coefficients; `p` is the
\* polynomial and `base` the index of the block's first coefficient, `b` is
\* the byte string and `o` the offset of the block's first byte (the source's
\* b[i] is b[o + i + 1])

PolyBlock_compress_4(p, base) ==
    LET t(j) == AsU8(compress(4, p[base + j]))
    IN << BitOr(t(0), Shl8(t(1), 4)),
          BitOr(t(2), Shl8(t(3), 4)),
          BitOr(t(4), Shl8(t(5), 4)),
          BitOr(t(6), Shl8(t(7), 4)) >>

PolyBlock_decompress_4(b, o) ==
    << decompress(4, b[o + 1]), decompress(4, Shr(b[o + 1], 4)),
       decompress(4, b[o + 2]), decompress(4, Shr(b[o + 2], 4)),
       decompress(4, b[o + 3]), decompress(4, Shr(b[o + 3], 4)),
       decompress(4, b[o + 4]), decompress(4, Shr(b[o + 4], 4)) >>

PolyBlock_compress_5(p, base) ==
    LET t(j) == AsU8(compress(5, p[base + j]))
    IN << BitOr(t(0), Shl8(t(1), 5)),
          BitOr(BitOr(Shr(t(1), 3), Shl8(t(2), 2)), Shl8(t(3), 7)),
          BitOr(Shr(t(3), 1), Shl8(t(4), 4)),
          BitOr(BitOr(Shr(t(4), 4), Shl8(t(5), 1)), Shl8(t(6), 6)),
          BitOr(Shr(t(6), 2), Shl8(t(7), 3)) >>

PolyBlock_decompress_5(b, o) ==
    LET x(i) == b[o + i + 1]
    IN << decompress(5, x(0)),
          decompress(5, BitOr(Shr(x(0), 5), Shl8(x(1), 3))),
          decompress(5, Shr(x(1), 2)),
          decompress(5, BitOr(Shr(x(1), 7), Shl8(x(2), 1))),
          decompress(5, BitOr(Shr(x(2), 4), Shl8(x(3), 4))),
          decompress(5, Shr(x(3), 1)),
          decompress(5, BitOr(Shr(x(3), 6), Shl8(x(4), 2))),
          decompress(5, Shr(x(4), 3)) >>

PolyBlock_compress_10(p, base) ==
    LET t(j) == compress(10, p[base + j])
    IN << AsU8(t(0)),
          AsU8(BitOr(Shr(t(0), 8), Shl16(t(1), 2))),
          AsU8(BitOr(Shr(t(1), 6), Shl16(t(2), 4))),
          AsU8(BitOr(Shr(t(2), 4), Shl16(t(3), 6))),
          AsU8(Shr(t(3), 2)),
          AsU8(t(4)),
          AsU8(BitOr(Shr(t(4), 8), Shl16(t(5), 2))),
          AsU8(BitOr(Shr(t(5), 6), Shl16(t(6), 4))),
          AsU8(BitOr(Shr(t(6), 4), Shl16(t(7), 6))),
          AsU8(Shr(t(7), 2)) >>

PolyBlock_decompress_10(b, o) ==
    LET x(i) == b[o + i + 1]
    IN << decompress(10, BitOr(x(0), Shl16(x(1), 8))),
          decompress(10, BitOr(Shr(x(1), 2), Shl16(x(2), 6))),
          decompress(10, BitOr(Shr(x(2), 4), Shl16(x(3), 4))),
          decompress(10, BitOr(Shr(x(3), 6), Shl16(x(4), 2))),
          decompress(10, BitOr(x(5), Shl16(x(6), 8))),
          decompress(10, BitOr(Shr(x(6), 2), Shl16(x(7), 6))),
          decompress(10, BitOr(Shr(x(7), 4), Shl16(x(8), 4))),
          decompress(10, BitOr(Shr(x(8), 6), Shl16(x(9), 2))) >>

PolyBlock_compress_11(p, base) ==
    LET t(j) == compress(11, p[base + j])
    IN << AsU8(t(0)),
          AsU8(BitOr(Shr(t(0), 8), Shl16(t(1), 3))),
          AsU8(BitOr(Shr(t(1), 5), Shl16(t(2), 6))),
          AsU8(Shr(t(2), 2)),
          AsU8(BitOr(Shr(t(2), 10), Shl16(t(3), 1))),
          AsU8(BitOr(Shr(t(3), 7), Shl16(t(4), 4))),
          AsU8(BitOr(Shr(t(4), 4), Shl16(t(5), 7))),
          AsU8(Shr(t(5), 1)),
          AsU8(BitOr(Shr(t(5), 9), Shl16(t(6), 2))),
          AsU8(BitOr(Shr(t(6), 6), Shl16(t(7), 5))),
          AsU8(Shr(t(7), 3)) >>

PolyBlock_decompress_11(b, o) ==
    LET x(i) == b[o + i + 1]
    IN << decompress(11, BitOr(x(0), Shl16(x(1), 8))),
          decompress(11, BitOr(Shr(x(1), 3), Shl16(x(2), 5))),
          decompress(11, BitOr(BitOr(Shr(x(2), 6), Shl16(x(3), 2)), Shl16(x(4), 10))),
          decompress(11, BitOr(Shr(x(4), 1), Shl16(x(5), 7))),
          decompress(11, BitOr(Shr(x(5), 4), Shl16(x(6), 4))),
          decompress(11, BitOr(BitOr(Shr(x(6), 7), Shl16(x(7), 1)), Shl16(x(8), 9))),
          decompress(11, BitOr(Shr(x(8), 2), Shl16(x(9), 6))),
          decompress(11, BitOr(Shr(x(9), 5), Shl16(x(10), 3))) >>

PolyBlock_compress(X, p, base) ==
    CASE X = 4 -> PolyBlock_compress_4(p, base)
      [] X = 5 -> PolyBlock_compress_5(p, base)
      [] X = 10 -> PolyBlock_compress_10(p, base)
      [] X = 11 -> PolyBlock_compress_11(p, base)

PolyBlock_decompress(X, b, o) ==
    CASE X = 4 -> PolyBlock_decompress_4(b, o)
      [] X = 5 -> PolyBlock_decompress_5(b, o)
      [] X = 10 -> PolyBlock_decompress_10(b, o)
      [] X = 11 -> PolyBlock_decompress_11(b, o)

\* compress_1 with coefficient j written to bit 7 - j
PolyBlock_compress_1_reversed(p, base) ==
    IF \E j \in 0 .. 7 : compress_1(p[base + j]) = Panic THEN Panic
    ELSE LET bit(j) == Shl8(compress_1(p[base + j]), 7 - j)
         IN BitOr(BitOr(BitOr(bit(0), bit(1)), BitOr(bit(2), bit(3))),
                  BitOr(BitOr(bit(4), bit(5)), BitOr(bit(6), bit(7))))

\* fold over j of compress_1() << j; Panic if a coefficient's compress_1 panics
PolyBlock_compress_1(p, base) ==
    IF \E j \in 0 .. 7 : compress_1(p[base + j]) = Panic THEN Panic
    ELSE LET bit(j) == Shl8(compress_1(p[base + j]), j)
         IN BitOr(BitOr(BitOr(bit(0), bit(1)), BitOr(bit(2), bit(3))),
                  BitOr(BitOr(bit(4), bit(5)), BitOr(bit(6), bit(7))))

PolyBlock_decompress_1(b) == [j \in 0 .. 7 |-> decompress_1(Shr(b, j))]

PolyBlock_to_bytes(p, base) ==
    LET t(j) == pack(p[base + j])
        r(i) == << AsU8(t(2 * i)),
                   AsU8(BitOr(Shr(t(2 * i), 8), Shl16(t(2 * i + 1), 4))),
                   AsU8(Shr(t(2 * i + 1), 4)) >>
    IN r(0) \o r(1) \o r(2) \o r(3)

PolyBlock_from_bytes(b, o) ==
    LET t0(i) == BitOr(b[o + 3 * i + 1], Shl16(b[o + 3 * i + 2], 8))
        t1(i) == BitOr(Shr(b[o + 3 * i + 2], 4), Shl16(b[o + 3 * i + 3], 4))
    IN << unpack(t0(0) % (2^12)), unpack(t1(0) % (2^12)),
          unpack(t0(1) % (2^12)), unpack(t1(1) % (2^12)),
          unpack(t0(2) % (2^12)), unpack(t1(2) % (2^12)),
          unpack(t0(3) % (2^12)), unpack(t1(3) % (2^12)) >>

----------------------------------------------------------------------------
\* array.rs, slice::chunks: how many items an iterator over `len` bytes in
\* chunks of n yields, how long chunk i is, and when Array::new runs short

NumChunks(len, n) == (len + n - 1) \div n

ChunkLen(len, n, i) == IF len - n * i < n THEN len - n * i ELSE n

\* assert_eq!(c, 0): the iterator ended before N items were stored; items
\* after the first N are never pulled (`take(N)`)
Array_new_panics(items, n) == items < n

\* bytes[from..] (0-based, to the end)
SliceFrom(bytes, from) == SubSeq(bytes, from + 1, Len(bytes))

\* bytes[from..to] (0-based, `to` excluded)
Slice(bytes, from, to) == SubSeq(bytes, from + 1, to)

\* the concatenation of parts[lo], ..., parts[hi]
RECURSIVE Concat(_, _, _)
Concat(parts, lo, hi) ==
    IF lo > hi THEN <<>>
    ELSE IF lo = hi THEN parts[lo]
    ELSE LET mid == (lo + hi) \div 2
         IN Concat(parts, lo, mid) \o Concat(parts, mid + 1, hi)

----------------------------------------------------------------------------
\* sha3 (external crate): the four hash functions are modelled by one
\* deterministic stand-in, separated by a tag; the input is absorbed into two
\* 15-bit lanes and output byte i is a fixed mix of the lanes and i

RECURSIVE PowMod(_, _, _)
PowMod(base, e, m) ==
    IF e = 0 THEN 1
    ELSE LET h == PowMod(base, e \div 2, m)
         IN IF e % 2 = 0 THEN (h * h) % m ELSE (((h * h) % m) * base) % m

RECURSIVE Lane(_, _, _, _, _)
Lane(data, lo, hi, mult, m) ==
    IF lo > hi THEN 0
    ELSE IF lo = hi THEN (data[lo] + 1) % m
    ELSE LET mid == (lo + hi) \div 2
         IN (Lane(data, lo, mid, mult, m) * PowMod(mult, hi - mid, m)
             + Lane(data, mid + 1, hi, mult, m)) % m

Absorb(tag, data) ==
    LET d == <<tag>> \o data
    IN << Lane(d, 1, Len(d), 263, 46337), Lane(d, 1, Len(d), 8191, 46327) >>

Squeeze(st, i) ==
    LET x == (st[1] + 7 + 131 * i) % 46337
        y == (x * x + st[2] + i) % 46337
        z == (y * (((st[2] + 3 * i) % 46327) + 1)) % 46337
        w == (z * z + x) % 46337
    IN (w \div 16) % 256

\* the first n bytes of the output
Read(st, n) == Collect([i \in 1 .. n |-> Squeeze(st, i - 1)])

Sha3_256(data) == LET st == Absorb(1, data) IN Read(st, 32)

Sha3_512(data) == LET st == Absorb(2, data) IN Read(st, 64)

Shake256(data, n) == LET st == Absorb(3, data) IN Read(st, n)

Shake128(data, n) == LET st == Absorb(4, data) IN Read(st, n)

----------------------------------------------------------------------------
\* block.rs: centered binomial sampling from the bytes v[o+1 ..]

\* cbd::<6>: two groups of 3 bytes, each giving 4 coefficients
PolyBlock_cbd_6(v, o) ==
    LET t(c) == v[o + 3 * c + 1] + (2^8) * v[o + 3 * c + 2] + (2^16) * v[o + 3 * c + 3]
        d(c) == BitAnd(t(c), 2396745) + BitAnd(Shr(t(c), 1), 2396745)
                + BitAnd(Shr(t(c), 2), 2396745)
        coef(c, k) == unpack(AsU16((Shr(d(c), 6 * k) % 8) - (Shr(d(c), 6 * k + 3) % 8)))
    IN << coef(0, 0), coef(0, 1), coef(0, 2), coef(0, 3),
          coef(1, 0), coef(1, 1), coef(1, 2), coef(1, 3) >>

\* cbd::<4>: d = (t & 0x55555555) + ((t >> 1) & 0x55555555) of the u32 t, taken
\* byte by byte (no field of d crosses a byte), coefficient k from nibble k
PolyBlock_cbd_4(v, o) ==
    LET d(i) == BitAnd(v[o + i + 1], 85) + BitAnd(Shr(v[o + i + 1], 1), 85)
        coef(k) == unpack(AsU16((Shr(d(k \div 2), 4 * (k % 2)) % 4)
                                - (Shr(d(k \div 2), 4 * (k % 2) + 2) % 4)))
    IN << coef(0), coef(1), coef(2), coef(3), coef(4), coef(5), coef(6), coef(7) >>

PolyBlock_cbd(I, v, o) ==
    CASE I = 6 -> PolyBlock_cbd_6(v, o)
      [] I = 4 -> PolyBlock_cbd_4(v, o)

----------------------------------------------------------------------------
\* generator.rs, poly.rs: sampling and byte layouts of a polynomial

\* the polynomial whose 32 blocks are blocks[0], ..., blocks[31]
FromBlocks(blocks) == Collect([j \in Coeffs |-> blocks[j \div 8][(j % 8) + 1]])

XofChunks == 224

\* Buf::next: word n of the XOF stream, two 12-bit words per 3-byte chunk
Buf_word(stream, n) ==
    LET o == 3 * (n \div 2)
    IN IF n % 2 = 0
       THEN BitOr(stream[o + 1], Shl16(stream[o + 2], 8)) % (2^12)
       ELSE BitOr(Shr(stream[o + 2], 4), Shl16(stream[o + 3], 4)) % (2^12)

Accepted(x) == x < Q

\* Poly::get_uniform: the first 256 words below Q, in stream order
get_uniform(seed, i, j) ==
    LET stream == Shake128(seed \o << i % 256, j % 256 >>, 3 * XofChunks)
        words  == Collect([n \in 1 .. 2 * XofChunks |-> Buf_word(stream, n - 1)])
        it     == SelectSeq(words, Accepted)
    IN Collect([c \in Coeffs |-> it[c + 1]])

\* Poly::get_noise::<_, I>
get_noise(I, seed, nonce) ==
    LET stream == Shake256(seed \o << nonce % 256 >>, 32 * I)
    IN FromBlocks(Collect([b \in 0 .. 31 |-> PolyBlock_cbd(I, stream, I * b)]))

Poly_montgomery_reduce(self) ==
    LET f == 1353    \* 2^32 mod Q
    IN Collect([j \in Coeffs |-> mul(self[j], f)])

\* the polynomial's bytes, block after block, for a block layout of X bytes
Poly_compress(X, self) ==
    Concat(Collect([b \in 1 .. 32 |-> PolyBlock_compress(X, self, 8 * (b - 1))]), 1, 32)

Poly_decompress_panics(X, bytes) ==
    \/ Array_new_panics(NumChunks(Len(bytes), X), 32)
    \/ \E i \in 0 .. 31 : ChunkLen(Len(bytes), X, i) < X

Poly_decompress(X, bytes) ==
    FromBlocks(Collect([b \in 0 .. 31 |-> PolyBlock_decompress(X, bytes, X * b)]))

Poly_to_bytes(self) ==
    Concat(Collect([b \in 1 .. 32 |-> PolyBlock_to_bytes(self, 8 * (b - 1))]), 1, 32)

Poly_from_bytes_panics(bytes) ==
    \/ Array_new_panics(NumChunks(Len(bytes), 12), 32)
    \/ \E i \in 0 .. 31 : ChunkLen(Len(bytes), 12, i) < 12

Poly_from_bytes(bytes) ==
    FromBlocks(Collect([b \in 0 .. 31 |-> PolyBlock_from_bytes(bytes, 12 * b)]))

from_msg(msg) == Collect([j \in Coeffs |-> PolyBlock_decompress_1(msg[(j \div 8) + 1])[j % 8]])

to_msg(self) == Collect([b \in 1 .. 32 |-> PolyBlock_compress_1(self, 8 * (b - 1))])

\* mul_fold_montgomery over two sequences of n polynomials
RECURSIVE mul_fold(_, _, _, _)
mul_fold(xs, ys, i, r) ==
    IF i > Len(xs) THEN r
    ELSE mul_fold(xs, ys, i + 1, add_assign(r, mul_montgomery(xs[i], ys[i])))

mul_fold_montgomery(xs, ys) ==
    Poly_barrett_reduce(mul_fold(xs, ys, 2, mul_montgomery(xs[1], ys[1])))

----------------------------------------------------------------------------
\* config.rs: the parameter sets Dim<2>, Dim<3>, Dim<4> with SIZE = 32

SIZE == 32

\* Config::get_noise with I = 4 for every Dim
NoiseBytes_four(dim) == 4

\* the I of Config::get_noise's Poly::get_noise::<Shake256, I>
NoiseBytes(dim) == IF dim = 2 THEN 6 ELSE 4

\* the X of compress_vec / decompress_vec / compare_vec
VecBits(dim) == IF dim = 4 THEN 11 ELSE 10

\* the X of compress / decompress / compare
PolyBits(dim) == IF dim = 4 THEN 5 ELSE 4

COMPRESSED_SIZE(dim) == VecBits(dim) * SIZE

compare_vec(dim, lhs, rhs) == compress(VecBits(dim), lhs) = compress(VecBits(dim), rhs)

compare(dim, lhs, rhs) == compress(PolyBits(dim), lhs) = compress(PolyBits(dim), rhs)

----------------------------------------------------------------------------
\* indcpa.rs

split(x) == << SubSeq(x, 1, 32), SubSeq(x, 33, 64) >>

\* key_pair multiplying row i of the matrix, as encapsulate does
indcpa_key_pair_rows(dim, seed) ==
    LET Let(v, body(_)) == Strict(v, body(v))
    IN Let(split(Sha3_512(seed)), LAMBDA c :
       Let(Collect([i \in 1 .. dim |-> ntt(get_noise(NoiseBytes(dim), c[2], i - 1))]), LAMBDA sk_pv :
       Let(Collect([i \in 1 .. dim |->
               Collect([j \in 1 .. dim |-> get_uniform(c[1], i - 1, j - 1)])]), LAMBDA a :
       Let(Collect([i \in 1 .. dim |->
               Poly_barrett_reduce(
                   add_assign(
                       Poly_montgomery_reduce(
                           mul_fold_montgomery(a[i], sk_pv)),
                       ntt(get_noise(NoiseBytes(dim), c[2], dim + i - 1))))]), LAMBDA pk_pv :
           [ sk |-> [poly_vector |-> sk_pv],
             pk |-> [poly_vector |-> pk_pv, matrix |-> a, seed |-> c[1]] ]))))

indcpa_key_pair(dim, seed) ==
    LET Let(v, body(_)) == Strict(v, body(v))
    IN Let(split(Sha3_512(seed)), LAMBDA c :
       Let(Collect([i \in 1 .. dim |-> ntt(get_noise(NoiseBytes(dim), c[2], i - 1))]), LAMBDA sk_pv :
       Let(Collect([i \in 1 .. dim |->
               Collect([j \in 1 .. dim |-> get_uniform(c[1], i - 1, j - 1)])]), LAMBDA a :
       Let(Collect([i \in 1 .. dim |->
               Poly_barrett_reduce(
                   add_assign(
                       Poly_montgomery_reduce(
                           mul_fold_montgomery([j \in 1 .. dim |-> a[j][i]], sk_pv)),
                       ntt(get_noise(NoiseBytes(dim), c[2], dim + i - 1))))]), LAMBDA pk_pv :
           [ sk |-> [poly_vector |-> sk_pv],
             pk |-> [poly_vector |-> pk_pv, matrix |-> a, seed |-> c[1]] ]))))

indcpa_encapsulate(dim, noise_seed, message, public_key) ==
    LET Let(v, body(_)) == Strict(v, body(v))
    IN Let(Collect([i \in 1 .. dim |-> ntt(get_noise(NoiseBytes(dim), noise_seed, i - 1))]), LAMBDA sp :
       Let(Collect([i \in 1 .. dim |->
               Poly_barrett_reduce(
                   add_assign(inv_ntt(mul_fold_montgomery(public_key.matrix[i], sp)),
                              get_noise(4, noise_seed, i - 1 + dim)))]), LAMBDA b :
       Let(inv_ntt(mul_fold_montgomery(public_key.poly_vector, sp)), LAMBDA v0 :
       Let(add_assign(v0, get_noise(4, noise_seed, 2 * dim)), LAMBDA v1 :
           [poly_vector |-> b, poly |-> add_assign(v1, from_msg(message))]))))

indcpa_decapsulate(dim, cipher_text, secret_key) ==
    LET Let(v, body(_)) == Strict(v, body(v))
    IN Let(Collect([i \in 1 .. dim |-> ntt(cipher_text.poly_vector[i])]), LAMBDA bhat :
       Let(inv_ntt(mul_fold_montgomery(secret_key.poly_vector, bhat)), LAMBDA mp :
           to_msg(Poly_barrett_reduce(sub_assign(mp, cipher_text.poly)))))

indcpa_PublicKey_to_bytes(dim, self) ==
    Concat([i \in 1 .. dim |-> Poly_to_bytes(self.poly_vector[i])], 1, dim) \o self.seed

CipherText_to_bytes(dim, self) ==
    Concat([i \in 1 .. dim |-> Poly_compress(VecBits(dim), self.poly_vector[i])], 1, dim)
    \o Poly_compress(PolyBits(dim), self.poly)

\* the (polynomial, index) pairs ct_eq passes to compare_vec / compare:
\* polynomial i of poly_vector for i in 0..DIM, and `poly` written as DIM;
\* `self.poly[j]` is Poly::index, coefficient j
ct_eq_examined(dim) == (0 .. dim) \X (0 .. (SIZE - 1))

ct_eq(dim, self, other) ==
    /\ \A i \in 0 .. (dim - 1) : \A j \in 0 .. (SIZE - 1) :
          compare_vec(dim, self.poly_vector[i + 1][j], other.poly_vector[i + 1][j])
    /\ \A j \in 0 .. (SIZE - 1) : compare(dim, self.poly[j], other.poly[j])

CipherText_has_panic(dim, self) ==
    \/ \E i \in 1 .. dim : HasPanic(self.poly_vector[i])
    \/ HasPanic(self.poly)

----------------------------------------------------------------------------
\* kem.rs

key_pair(dim, s) ==
    LET Let(v, body(_)) == Strict(v, body(v))
    IN Let(indcpa_key_pair(dim, s.main), LAMBDA inner :
       Let(Sha3_256(indcpa_PublicKey_to_bytes(dim, inner.pk)), LAMBDA hash :
           [ sk |-> [inner |-> inner.sk, reject |-> s.reject],
             pk |-> [inner |-> inner.pk, hash |-> hash] ]))

encapsulate(dim, seed, public_key) ==
    LET Let(v, body(_)) == Strict(v, body(v))
    IN Let(Sha3_256(seed), LAMBDA message :
       Let(split(Sha3_512(message \o public_key.hash)), LAMBDA c :
       Let(indcpa_encapsulate(dim, c[2], message, public_key.inner), LAMBDA inner_ct :
       Let(Sha3_256(CipherText_to_bytes(dim, inner_ct)), LAMBDA ct_hash :
           [ ct |-> inner_ct,
             ss |-> Shake256(c[1] \o ct_hash, 32),
             panic |-> CipherText_has_panic(dim, inner_ct) ]))))

\* conditional_assign with the choice inverted (`flag` in place of `!flag`)
conditional_assign_inverted(r, reject, choice) ==
    [i \in 1 .. 32 |-> IF choice THEN r[i] ELSE reject[i]]

\* b.conditional_assign(a, !flag) for each byte a of reject and b of r
conditional_assign(r, reject, choice) ==
    [i \in 1 .. 32 |-> IF choice THEN reject[i] ELSE r[i]]

\* decapsulate with explicit rejection: a failed re-encryption check returns
\* early, with no key selected and no KDF run
decapsulate_explicit_reject(dim, secret_key, public_key, cipher_text) ==
    LET Let(v, body(_)) == Strict(v, body(v))
    IN Let(indcpa_decapsulate(dim, cipher_text, secret_key.inner), LAMBDA message :
       Let(split(Sha3_512(message \o public_key.hash)), LAMBDA c :
       Let(indcpa_encapsulate(dim, c[2], message, public_key.inner), LAMBDA inner_ct :
       Let(ct_eq(dim, inner_ct, cipher_text), LAMBDA flag :
       Let(CipherText_to_bytes(dim, inner_ct), LAMBDA kdf_ct :
       Let(IF flag THEN c[1] ELSE <<>>, LAMBDA r :
           [ message |-> message,
             flag    |-> flag,
             kdf_key |-> r,
             kdf_ct  |-> kdf_ct,
             ss      |-> IF flag THEN Shake256(r \o Sha3_256(kdf_ct), 32) ELSE <<>>,
             panic   |-> \/ \E i \in 1 .. 32 : message[i] = Panic
                         \/ CipherText_has_panic(dim, inner_ct) ]))))))

\* decapsulate hashing the received ciphertext in place of the re-encryption
decapsulate_hash_received(dim, secret_key, public_key, cipher_text) ==
    LET Let(v, body(_)) == Strict(v, body(v))
    IN Let(indcpa_decapsulate(dim, cipher_text, secret_key.inner), LAMBDA message :
       Let(split(Sha3_512(message \o public_key.hash)), LAMBDA c :
       Let(indcpa_encapsulate(dim, c[2], message, public_key.inner), LAMBDA inner_ct :
       Let(ct_eq(dim, inner_ct, cipher_text), LAMBDA flag :
       Let(CipherText_to_bytes(dim, cipher_text), LAMBDA kdf_ct :
       Let(Collect(conditional_assign(c[1], secret_key.reject, ~flag)), LAMBDA r :
           [ message |-> message,
             flag    |-> flag,
             kdf_key |-> r,
             kdf_ct  |-> kdf_ct,
             ss      |-> Shake256(r \o Sha3_256(kdf_ct), 32),
             panic   |-> \/ \E i \in 1 .. 32 : message[i] = Panic
                         \/ CipherText_has_panic(dim, inner_ct) ]))))))

decapsulate(dim, secret_key, public_key, cipher_text) ==
    LET Let(v, body(_)) == Strict(v, body(v))
    IN Let(indcpa_decapsulate(dim, cipher_text, secret_key.inner), LAMBDA message :
       Let(split(Sha3_512(message \o public_key.hash)), LAMBDA c :
       Let(indcpa_encapsulate(dim, c[2], message, public_key.inner), LAMBDA inner_ct :
       Let(ct_eq(dim, inner_ct, cipher_text), LAMBDA flag :
       Let(CipherText_to_bytes(dim, inner_ct), LAMBDA kdf_ct :
       Let(Collect(conditional_assign(c[1], secret_key.reject, ~flag)), LAMBDA r :
           [ message |-> message,
             flag    |-> flag,
             kdf_key |-> r,
             kdf_ct  |-> kdf_ct,
             ss      |-> Shake256(r \o Sha3_256(kdf_ct), 32),
             panic   |-> \/ \E i \in 1 .. 32 : message[i] = Panic
                         \/ CipherText_has_panic(dim, inner_ct) ]))))))

----------------------------------------------------------------------------
\* indcpa.rs, kem.rs: deserializers. For each, one predicate tells when the
\* call panics and one operator gives the object it returns otherwise.

Min(a, b) == IF a < b THEN a ELSE b

\* item i of bytes.chunks(n)
Chunk(bytes, n, i) ==
    Slice(bytes, Min(n * i, Len(bytes)), Min(n * (i + 1), Len(bytes)))

indcpa_SecretKey_from_bytes_panics(dim, bytes) ==
    \/ Array_new_panics(NumChunks(Len(bytes), 12 * SIZE), dim)
    \/ \E i \in 0 .. (dim - 1) : Poly_from_bytes_panics(Chunk(bytes, 12 * SIZE, i))

indcpa_SecretKey_from_bytes(dim, bytes) ==
    [poly_vector |->
        Collect([i \in 1 .. dim |-> Poly_from_bytes(Chunk(bytes, 12 * SIZE, i - 1))])]

\* `.take(DIM)` polynomials, then the seed: the slice from 12 * SIZE * DIM
\* to the end must convert to [u8; 32]
indcpa_PublicKey_from_bytes_panics(dim, bytes) ==
    \/ Array_new_panics(Min(NumChunks(Len(bytes), 12 * SIZE), dim), dim)
    \/ \E i \in 0 .. (dim - 1) : Poly_from_bytes_panics(Chunk(bytes, 12 * SIZE, i))
    \/ Len(bytes) < 12 * SIZE * dim
    \/ Len(bytes) - 12 * SIZE * dim # 32

indcpa_PublicKey_from_bytes(dim, bytes) ==
    LET Let(v, body(_)) == Strict(v, body(v))
    IN Let(Collect([i \in 1 .. dim |-> Poly_from_bytes(Chunk(bytes, 12 * SIZE, i - 1))]), LAMBDA pk_pv :
       Let(SliceFrom(bytes, 12 * SIZE * dim), LAMBDA seed :
       Let(Collect([i \in 1 .. dim |->
               Collect([j \in 1 .. dim |-> get_uniform(seed, i - 1, j - 1)])]), LAMBDA a :
           [poly_vector |-> pk_pv, matrix |-> a, seed |-> seed])))

\* `.take(DIM)` polynomials of COMPRESSED_SIZE bytes, then `poly` from the
\* slice that starts at COMPRESSED_SIZE * DIM and runs to the end
CipherText_from_bytes_panics(dim, bytes) ==
    LET v == COMPRESSED_SIZE(dim)
    IN \/ Array_new_panics(Min(NumChunks(Len(bytes), v), dim), dim)
       \/ \E i \in 0 .. (dim - 1) :
             Poly_decompress_panics(VecBits(dim), Chunk(bytes, v, i))
       \/ Len(bytes) < v * dim
       \/ Poly_decompress_panics(PolyBits(dim), SliceFrom(bytes, v * dim))

CipherText_from_bytes(dim, bytes) ==
    LET v == COMPRESSED_SIZE(dim)
    IN [ poly_vector |->
            Collect([i \in 1 .. dim |->
                Poly_decompress(VecBits(dim), Chunk(bytes, v, i - 1))]),
         poly |-> Poly_decompress(PolyBits(dim), SliceFrom(bytes, v * dim)) ]

PublicKey_from_bytes_panics(dim, b) == indcpa_PublicKey_from_bytes_panics(dim, b)

\* kem::PublicKey::from_bytes hashing the polynomial vector without the seed
PublicKey_from_bytes_hash_vector(dim, b) ==
    [inner |-> indcpa_PublicKey_from_bytes(dim, b),
     hash |-> Sha3_256(Slice(b, 0, 12 * SIZE * dim))]

PublicKey_from_bytes(dim, b) ==
    [inner |-> indcpa_PublicKey_from_bytes(dim, b), hash |-> Sha3_256(b)]

load_key_pair_panics(dim, b) ==
    LET sk_len == 12 * 32 * dim
        pk_len == 12 * 32 * dim + 32
    IN \/ Len(b) # sk_len + pk_len + 32 + 32
       \/ indcpa_SecretKey_from_bytes_panics(dim, Slice(b, 0, sk_len))
       \/ indcpa_PublicKey_from_bytes_panics(dim, Slice(b, sk_len, sk_len + pk_len))

load_key_pair(dim, b) ==
    LET sk_len == 12 * 32 * dim
        pk_len == 12 * 32 * dim + 32
    IN [ sk |-> [ inner  |-> indcpa_SecretKey_from_bytes(dim, Slice(b, 0, sk_len)),
                  reject |-> SliceFrom(b, sk_len + pk_len + 32) ],
         pk |-> [ inner |-> indcpa_PublicKey_from_bytes(dim,
                                Slice(b, sk_len, sk_len + pk_len)),
                  hash  |-> Slice(b, sk_len + pk_len, sk_len + pk_len + 32) ] ]

----------------------------------------------------------------------------
\* Scalar inputs

MaxSample == 180

\* i16 values spread over the whole range, plus the edges of the ranges the
\* reductions are specified on
SampleI16 ==
    { AsI16(i * 8191) : i \in 0 .. MaxSample }
    \cup { -(2^15), 2^15 - 1, -Q, Q, -(Q \div 2), Q \div 2, -1, 0, 1 }

ScalarIdle == arg_a = 0 /\ arg_rhs = 0 /\ ret = 0

PolyIdle ==
    /\ poly_a = <<>> /\ poly_b = <<>> /\ ntt_a = <<>> /\ ntt_b = <<>>
    /\ prod = <<>> /\ inv_prod = <<>> /\ round_trip = <<>>

KemIdle ==
    /\ sid = 0 /\ sk = <<>> /\ pk = <<>> /\ ct = <<>> /\ ss = <<>>
    /\ tamper = <<>> /\ wire = <<>> /\ received = <<>>
    /\ dec = <<>> /\ prev = <<>> /\ runs = 0

EqIdle == ct_self = <<>> /\ ct_other = <<>> /\ eq = FALSE /\ examined = {}

DeserIdle == input = <<>> /\ outcome = <<>> /\ loaded = <<>>

KyberIdle == DIM = 2 /\ KemIdle /\ EqIdle /\ DeserIdle

----------------------------------------------------------------------------
\* Specification of Coefficient::barrett_reduce over every i16

InitBarrett ==
    /\ pc = "start"
    /\ overflow_checks \in BOOLEAN
    /\ arg_a \in I16
    /\ arg_rhs = 0
    /\ ret = 0
    /\ PolyIdle
    /\ KyberIdle

BarrettReduce ==
    /\ pc = "start"
    /\ ret' = barrett_reduce(arg_a)
    /\ pc' = "barrett_reduce"
    /\ UNCHANGED <<overflow_checks, arg_a, arg_rhs, poly_vars, kyber_vars>>

NextBarrett == BarrettReduce

SpecBarrett == InitBarrett /\ [][NextBarrett]_vars

\* C9: for every i16 x, barrett_reduce(x) is congruent to x mod q, lies in
\* [-(q-1)/2, (q+1)/2], and no intermediate 16- or 32-bit operation overflows
\* (so the call completes in every build).
C9_BarrettReduced ==
    pc = "barrett_reduce" =>
        /\ ~barrett_overflows(arg_a)
        /\ ret # Panic
        /\ (ret - arg_a) % Q = 0
        /\ ret >= -((Q - 1) \div 2)
        /\ ret <= (Q + 1) \div 2

----------------------------------------------------------------------------
\* Specification of Coefficient::mul over sampled pairs of i16

InitMul ==
    /\ pc = "start"
    /\ overflow_checks \in BOOLEAN
    /\ arg_a \in SampleI16
    /\ arg_rhs \in SampleI16
    /\ ret = 0
    /\ PolyIdle
    /\ KyberIdle

Mul ==
    /\ pc = "start"
    /\ ret' = mul(arg_a, arg_rhs)
    /\ pc' = "mul"
    /\ UNCHANGED <<overflow_checks, arg_a, arg_rhs, poly_vars, kyber_vars>>

NextMul == Mul

SpecMul == InitMul /\ [][NextMul]_vars

MulCongruent == ((ret * (2^16)) % Q) = ((arg_a * arg_rhs) % Q)

----------------------------------------------------------------------------
\* Specification of the NTT pipeline: ntt, mul_montgomery, inverse ntt

MaxDense == 4

\* c * X^i
Monomial(c, i) == Collect([j \in Coeffs |-> IF j = i THEN c ELSE 0])

\* a dense polynomial with coefficients spread over [0, q)
Dense(s) == Collect([j \in Coeffs |-> ((s * 1237 + 911) * (j + 1) * (j + s) + 17 * s) % Q])

\* a polynomial with small signed coefficients, as sampled noise has
Small(s) == Collect([j \in Coeffs |-> (((s + 2) * (j + 3) * (j + 1)) % 7) - 3])

PolysA ==
    { Monomial(1, 0), Monomial(1, 1), Monomial(Q - 1, 255), Monomial(1665, 128) }
    \cup { Dense(s) : s \in 1 .. MaxDense }

PolysB ==
    { Monomial(1, 0), Monomial(2, 255), Monomial(Q - 1, 129) }
    \cup { Dense(s + 10) : s \in 1 .. MaxDense }

InitNtt ==
    /\ pc = "start"
    /\ overflow_checks \in BOOLEAN
    /\ ScalarIdle
    /\ KyberIdle
    /\ poly_a \in PolysA \cup { Small(s) : s \in 1 .. MaxDense }
    /\ poly_b \in PolysB
    /\ ntt_a = <<>> /\ ntt_b = <<>> /\ prod = <<>> /\ inv_prod = <<>>
    /\ round_trip = <<>>

ForwardNtt ==
    /\ pc = "start"
    /\ ntt_a' = ntt(poly_a)
    /\ ntt_b' = ntt(poly_b)
    /\ pc' = "ntt"
    /\ UNCHANGED <<overflow_checks, scalar_vars, poly_a, poly_b, prod, inv_prod, round_trip,
                 kyber_vars>>

RoundTrip ==
    /\ pc = "ntt"
    /\ round_trip = <<>>
    /\ round_trip' = inv_ntt(ntt_a)
    /\ UNCHANGED <<pc, overflow_checks, scalar_vars, poly_a, poly_b, ntt_a, ntt_b, prod, inv_prod,
                 kyber_vars>>

MulMontgomery ==
    /\ pc = "ntt"
    /\ prod' = mul_montgomery(ntt_a, ntt_b)
    /\ pc' = "mul_montgomery"
    /\ UNCHANGED <<overflow_checks, scalar_vars, poly_a, poly_b, ntt_a, ntt_b, inv_prod, round_trip,
                 kyber_vars>>

InverseNtt ==
    /\ pc = "mul_montgomery"
    /\ inv_prod' = inv_ntt(prod)
    /\ pc' = "inv_ntt"
    /\ UNCHANGED <<overflow_checks, scalar_vars, poly_a, poly_b, ntt_a, ntt_b, prod, round_trip,
                 kyber_vars>>

NextNtt == ForwardNtt \/ RoundTrip \/ MulMontgomery \/ InverseNtt

SpecNtt == InitNtt /\ [][NextNtt]_vars

\* coefficient k of a * b in Z_q[X] / (X^256 + 1): the sum over i in lo..hi-1
\* of x[i] * y[k - i], with X^256 = -1
RECURSIVE SchoolbookSum(_, _, _, _, _)
SchoolbookSum(x, y, k, lo, hi) ==
    IF hi - lo = 1
    THEN IF lo <= k THEN (x[lo] * y[k - lo]) % Q
         ELSE (-(x[lo] * y[N + k - lo])) % Q
    ELSE LET mid == (lo + hi) \div 2
         IN (SchoolbookSum(x, y, k, lo, mid) + SchoolbookSum(x, y, k, mid, hi)) % Q

SchoolbookCoeff(x, y, k) == SchoolbookSum(x, y, k, 0, N)

\* C7 as stated: inv_ntt(ntt(p)) == p coefficient by coefficient.
C7_RoundTripIdentity ==
    round_trip # <<>> => \A j \in Coeffs : round_trip[j] = poly_a[j]

\* C7 amended: inv_ntt(ntt(p)) is congruent mod q, coefficient by coefficient,
\* to p * 2^16 (p in Montgomery form), with every coefficient in (-q, q) and
\* no panic, for p with coefficients in (-q, q).
C7_RoundTripMontgomery ==
    round_trip # <<>> =>
        \A j \in Coeffs :
            /\ round_trip[j] # Panic
            /\ round_trip[j] > -Q /\ round_trip[j] < Q
            /\ (round_trip[j] - poly_a[j] * (2^16)) % Q = 0

C7_Witness ==
    /\ round_trip # <<>>
    /\ \E j \in Coeffs : poly_a[j] % Q # 0 /\ round_trip[j] # poly_a[j]
    /\ \E j \in Coeffs : poly_a[j] < 0

\* C8: for a, b with coefficients in [0, q), inv_ntt(mul_montgomery(ntt(a),
\* ntt(b))) is congruent mod q, coefficient by coefficient, to the schoolbook
\* product a * b reduced modulo X^256 + 1.
C8_PointwiseIsSchoolbook ==
    (pc = "inv_ntt" /\ \A j \in Coeffs : poly_a[j] >= 0 /\ poly_a[j] < Q) =>
        \A k \in Coeffs :
            /\ inv_prod[k] # Panic
            /\ (inv_prod[k] - SchoolbookCoeff(poly_a, poly_b, k)) % Q = 0

C8_Witness ==
    /\ pc = "inv_ntt"
    /\ \A j \in Coeffs : poly_a[j] >= 0 /\ poly_a[j] < Q
    /\ Cardinality({ j \in Coeffs : poly_a[j] # 0 }) > 200
    /\ Cardinality({ j \in Coeffs : poly_b[j] # 0 }) > 200
    /\ Cardinality({ k \in Coeffs : inv_prod[k] % Q # 0 }) > 200

----------------------------------------------------------------------------
\* Specification of the KEM: key_pair, encapsulate, a channel that may tamper
\* with the serialized ciphertext, CipherText::from_bytes and decapsulate

Dims == {2, 3, 4}

MaxSeed == 1

MaxTamper == 1

\* a 32-byte seed
Seed(id) ==
    Collect([i \in 1 .. 32 |-> (id * 37 + i * 11 + ((i * i * id) % 13)) % 256])

\* KeySeed { main, reject } of session s
KeySeed(s) == [main |-> Seed(4 * s), reject |-> Seed(4 * s + 1)]

\* position, in the bit stream of CipherText::to_bytes, of bit b of the
\* compressed coefficient j of polynomial i (poly_vector[i] for i < dim,
\* `poly` for i = dim): compress_X writes the X-bit values back to back,
\* low bit first
CoeffBit(dim, i, j, b) ==
    IF i < dim THEN 8 * COMPRESSED_SIZE(dim) * i + VecBits(dim) * j + b
    ELSE 8 * COMPRESSED_SIZE(dim) * dim + PolyBits(dim) * j + b

FlipBit(bytes, n) ==
    LET old == bytes[(n \div 8) + 1]
        new == IF Shr(old, n % 8) % 2 = 1 THEN old - 2^(n % 8) ELSE old + 2^(n % 8)
    IN [i \in 1 .. Len(bytes) |-> IF i = (n \div 8) + 1 THEN new ELSE bytes[i]]

\* the coefficients whose low bit the channel may flip: the first of each
\* group of SIZE
TamperCoeffs == { SIZE * m : m \in 0 .. MaxTamper }

\* what the channel may do: hand the object over ("direct"), carry the bytes
\* unchanged ("intact"), flip one bit of one compressed coefficient ("flip")
\* (the low bit of a coefficient of poly_vector[0], the top bit of the last
\* coefficient of `poly`) or replace every byte ("fill")
Tampers(dim) ==
    { <<"direct", 0, 0, 0>>, <<"intact", 0, 0, 0>>, <<"fill", 255, 0, 0>>,
      <<"flip", dim, N - 1, PolyBits(dim) - 1>> }
    \cup { <<"flip", 0, j, 0>> : j \in TamperCoeffs }

\* one-bit changes in the first coefficients of the first and the last
\* polynomial
NearTampers(dim) == { <<"flip", i, j, 0>> : i \in {0, dim}, j \in 0 .. (MaxTamper - 1) }

Tampered(dim, bytes, t) ==
    CASE t[1] = "intact" -> bytes
      [] t[1] = "flip" -> FlipBit(bytes, CoeffBit(dim, t[2], t[3], t[4]))
      [] t[1] = "fill" -> Collect([i \in 1 .. Len(bytes) |-> t[2]])

InitKem ==
    /\ pc = "start"
    /\ overflow_checks \in BOOLEAN
    /\ ScalarIdle /\ PolyIdle /\ EqIdle /\ DeserIdle
    /\ DIM \in Dims
    /\ sid \in 1 .. MaxSeed
    /\ sk = <<>> /\ pk = <<>> /\ ct = <<>> /\ ss = <<>>
    /\ tamper = <<>> /\ wire = <<>> /\ received = <<>>
    /\ dec = <<>> /\ prev = <<>> /\ runs = 0

KeyPair ==
    /\ pc = "start"
    /\ LET kp == key_pair(DIM, KeySeed(sid))
       IN sk' = kp.sk /\ pk' = kp.pk
    /\ pc' = "key_pair"
    /\ UNCHANGED <<overflow_checks, scalar_vars, poly_vars, DIM, sid, ct, ss,
                   tamper, wire, received, dec, prev, runs, eq_vars, deser_vars>>

Encapsulate ==
    /\ pc = "key_pair"
    /\ LET e == encapsulate(DIM, Seed(4 * sid + 2), pk)
       IN /\ ct' = e.ct
          /\ ss' = e.ss
          /\ pc' = IF e.panic THEN "encapsulate_panic" ELSE "encapsulate"
    /\ UNCHANGED <<overflow_checks, scalar_vars, poly_vars, DIM, sid, sk, pk,
                   tamper, wire, received, dec, prev, runs, eq_vars, deser_vars>>

\* the caller passes the CipherText object itself to decapsulate
Deliver ==
    /\ pc = "encapsulate"
    /\ tamper' = <<"direct", 0, 0, 0>>
    /\ received' = ct
    /\ pc' = "received"
    /\ UNCHANGED <<overflow_checks, scalar_vars, poly_vars, DIM, sid, sk, pk,
                   ct, ss, wire, dec, prev, runs, eq_vars, deser_vars>>

\* CipherText::to_bytes, then the channel
Send(choices) ==
    /\ pc = "encapsulate"
    /\ \E t \in choices \ { <<"direct", 0, 0, 0>> } :
          /\ tamper' = t
          /\ wire' = Tampered(DIM, CipherText_to_bytes(DIM, ct), t)
    /\ pc' = "transmit"
    /\ UNCHANGED <<overflow_checks, scalar_vars, poly_vars, DIM, sid, sk, pk,
                   ct, ss, received, dec, prev, runs, eq_vars, deser_vars>>

Transmit == Send(Tampers(DIM))

TransmitNear == Send(NearTampers(DIM))

FromBytes ==
    /\ pc = "transmit"
    /\ IF CipherText_from_bytes_panics(DIM, wire)
       THEN pc' = "from_bytes_panic" /\ UNCHANGED received
       ELSE pc' = "received" /\ received' = CipherText_from_bytes(DIM, wire)
    /\ UNCHANGED <<overflow_checks, scalar_vars, poly_vars, DIM, sid, sk, pk,
                   ct, ss, tamper, wire, dec, prev, runs, eq_vars, deser_vars>>

Decapsulate ==
    /\ pc = "received"
    /\ LET d == decapsulate(DIM, sk, pk, received)
       IN /\ dec' = d
          /\ pc' = IF d.panic THEN "decapsulate_panic" ELSE "decapsulate"
    /\ UNCHANGED <<overflow_checks, scalar_vars, poly_vars, DIM, sid, sk, pk,
                   ct, ss, tamper, wire, received, prev, runs, eq_vars, deser_vars>>

NextKem == KeyPair \/ Encapsulate \/ Deliver \/ Transmit \/ FromBytes \/ Decapsulate

SpecKem == InitKem /\ [][NextKem]_vars

\* C1: KEM correctness. For k in {2, 3, 4}, a key pair from key_pair and
\* (ct, ss) from encapsulate on it, decapsulate(sk, pk, ct) on that very
\* ciphertext accepts it and returns exactly ss.
C1_Correctness ==
    (pc = "decapsulate" /\ tamper[1] = "direct") =>
        /\ received = ct
        /\ dec.flag
        /\ dec.ss = ss

C1_Witness ==
    /\ pc = "decapsulate" /\ tamper[1] = "direct"
    /\ DIM = 4
    /\ dec.ss = ss
    /\ Len(ss) = 32

\* C2: for (ct, ss) from encapsulate and any ciphertext deserialized from
\* bytes of the right length that differ from serialize(ct) in at least one
\* bit, at any byte position (also in bytes encoding coefficients of index
\* 32 and above), decapsulate returns a value different from ss.
C2_TamperingChangesSecret ==
    (/\ pc = "decapsulate"
     /\ tamper[1] # "direct"
     /\ Len(wire) = Len(CipherText_to_bytes(DIM, ct))
     /\ wire # CipherText_to_bytes(DIM, ct)) =>
        dec.ss # ss

\* C5: decapsulate of a ciphertext that CipherText::from_bytes built from
\* bytes of the right length never panics and returns 32 bytes, on the
\* accepting and on the rejecting path alike; on both paths it serialized the
\* re-encryption, selected a 32-byte KDF key and ran the KDF.
C5_DecapsulateTotal ==
    /\ pc # "decapsulate_panic"
    /\ (pc = "decapsulate" /\ tamper[1] # "direct") =>
          /\ Len(wire) = COMPRESSED_SIZE(DIM) * DIM + PolyBits(DIM) * SIZE
          /\ ~dec.panic
          /\ Len(dec.ss) = 32
          /\ \A i \in 1 .. 32 : dec.ss[i] \in 0 .. 255
          /\ Len(dec.kdf_key) = 32
          /\ Len(dec.kdf_ct) = Len(wire)
          /\ (~dec.flag => dec.kdf_key = sk.reject)

C5_Witness ==
    /\ pc = "decapsulate"
    /\ tamper[1] = "flip"
    /\ ~dec.flag
    /\ ~dec.panic
    /\ Len(dec.ss) = 32

----------------------------------------------------------------------------
\* Specification of a receiver that decapsulates twice: it keeps the first
\* decapsulation, may replace its secret key by one with the same reject
\* seed, and decapsulates the next ciphertext from the channel

MaxRuns == 2

\* decapsulate borrows its arguments: the receiver calls it again
Again ==
    /\ pc = "decapsulate"
    /\ runs + 1 < MaxRuns
    /\ prev' = [inner |-> sk.inner, reject |-> sk.reject, wire |-> wire, dec |-> dec]
    /\ runs' = runs + 1
    /\ pc' = "encapsulate"
    /\ UNCHANGED <<overflow_checks, scalar_vars, poly_vars, DIM, sid, sk, pk,
                   ct, ss, tamper, wire, received, dec, eq_vars, deser_vars>>

\* key_pair on another main seed and the same reject seed; decapsulate is
\* then called with the new secret key and the public key as before
KeyPairSameReject ==
    /\ pc = "encapsulate"
    /\ runs > 0
    /\ sk.inner = prev.inner
    /\ sk' = key_pair(DIM, [main |-> Seed(4 * sid + 3), reject |-> sk.reject]).sk
    /\ UNCHANGED <<pc, overflow_checks, scalar_vars, poly_vars, DIM, sid, pk,
                   ct, ss, tamper, wire, received, dec, prev, runs, eq_vars,
                   deser_vars>>

NextKemTwice ==
    \/ KeyPair \/ Encapsulate \/ TransmitNear \/ FromBytes \/ Decapsulate
    \/ Again \/ KeyPairSameReject

SpecKemTwice == InitKem /\ [][NextKemTwice]_vars

\* C3: when decapsulate rejects, the returned secret is a function of only
\* (sk.reject, serialize(ct)): two rejecting calls with the same reject seed
\* return the same value for the same ciphertext bytes whatever sk.inner is,
\* and feed different (key, ciphertext hash input) pairs to the final KDF
\* for ciphertexts with different serializations.
C3_RejectionFromRejectAndCt ==
    (/\ pc = "decapsulate"
     /\ runs > 0
     /\ ~dec.flag
     /\ ~prev.dec.flag
     /\ sk.reject = prev.reject) =>
        /\ (wire = prev.wire => dec.ss = prev.dec.ss)
        /\ (wire # prev.wire =>
               <<dec.kdf_key, dec.kdf_ct>> # <<prev.dec.kdf_key, prev.dec.kdf_ct>>)

----------------------------------------------------------------------------
\* Specification of CipherText::ct_eq on two deserialized ciphertexts that
\* are equal or differ in one bit of one compressed coefficient

MaxPattern == 2

\* a byte string of the given length
Pattern(id, len) ==
    Collect([i \in 1 .. len |-> (id * 89 + i * 57 + ((i * i) % 31) * id) % 256])

CipherTextLen(dim) == COMPRESSED_SIZE(dim) * dim + PolyBits(dim) * SIZE

EqCoeffs == {0, SIZE - 1, SIZE, N - 1}

InitCtEq ==
    /\ pc = "start"
    /\ overflow_checks \in BOOLEAN
    /\ ScalarIdle /\ PolyIdle /\ KemIdle /\ DeserIdle
    /\ DIM \in Dims
    /\ \E id \in 1 .. MaxPattern :
          LET bytes == Pattern(id, CipherTextLen(DIM))
          IN /\ ct_self = CipherText_from_bytes(DIM, bytes)
             /\ \/ ct_other = CipherText_from_bytes(DIM, bytes)
                \/ \E i \in 0 .. DIM : \E j \in EqCoeffs :
                      ct_other = CipherText_from_bytes(DIM,
                                     FlipBit(bytes, CoeffBit(DIM, i, j, 0)))
    /\ eq = FALSE
    /\ examined = {}

CtEq ==
    /\ pc = "start"
    /\ eq' = ct_eq(DIM, ct_self, ct_other)
    /\ examined' = ct_eq_examined(DIM)
    /\ pc' = "ct_eq"
    /\ UNCHANGED <<overflow_checks, scalar_vars, poly_vars, DIM, kem_vars,
                   ct_self, ct_other, deser_vars>>

NextCtEq == CtEq

SpecCtEq == InitCtEq /\ [][NextCtEq]_vars

\* C4: ct_eq(a, b) is true when a and b are equal, false whenever
\* serialize(a) and serialize(b) differ in any bit, and on every call it
\* examines each of the 256 coefficients of each of the k polynomials of u
\* and of v.
C4_CtEqExaminesAll ==
    pc = "ct_eq" =>
        /\ (ct_self = ct_other => eq)
        /\ (CipherText_to_bytes(DIM, ct_self) # CipherText_to_bytes(DIM, ct_other)
               => ~eq)
        /\ examined = (0 .. DIM) \X Coeffs

----------------------------------------------------------------------------
\* Specification of the deserializers on byte strings whose length is the
\* expected one or off by up to MaxSkew

MaxSkew == 1

\* the lengths the deserializers are documented to require
ExpectedLen(fn, dim) ==
    CASE fn = "load_key_pair" -> 768 * dim + 96
      [] fn = "PublicKey::from_bytes" -> 384 * dim + 32
      [] fn = "CipherText::from_bytes" -> CipherTextLen(dim)

InitDeser ==
    /\ pc = "start"
    /\ overflow_checks \in BOOLEAN
    /\ ScalarIdle /\ PolyIdle /\ KemIdle /\ EqIdle
    /\ DIM \in Dims
    /\ input = <<>> /\ outcome = <<>> /\ loaded = <<>>

LoadKeyPair ==
    /\ pc = "start"
    /\ \E id \in 1 .. MaxPattern : \E d \in (-MaxSkew) .. MaxSkew :
          LET b == Pattern(id, ExpectedLen("load_key_pair", DIM) + d)
          IN /\ input' = b
             /\ IF load_key_pair_panics(DIM, b)
                THEN outcome' = <<"load_key_pair", "panic">> /\ loaded' = <<>>
                ELSE /\ outcome' = <<"load_key_pair", "returned">>
                     /\ loaded' = load_key_pair(DIM, b)
    /\ pc' = "deserialized"
    /\ UNCHANGED <<overflow_checks, scalar_vars, poly_vars, DIM, kem_vars, eq_vars>>

PublicKeyFromBytes ==
    /\ pc = "start"
    /\ \E id \in 1 .. MaxPattern : \E d \in (-MaxSkew) .. MaxSkew :
          LET b == Pattern(id, ExpectedLen("PublicKey::from_bytes", DIM) + d)
          IN /\ input' = b
             /\ IF PublicKey_from_bytes_panics(DIM, b)
                THEN outcome' = <<"PublicKey::from_bytes", "panic">> /\ loaded' = <<>>
                ELSE /\ outcome' = <<"PublicKey::from_bytes", "returned">>
                     /\ loaded' = PublicKey_from_bytes(DIM, b)
    /\ pc' = "deserialized"
    /\ UNCHANGED <<overflow_checks, scalar_vars, poly_vars, DIM, kem_vars, eq_vars>>

CipherTextFromBytes ==
    /\ pc = "start"
    /\ \E id \in 1 .. MaxPattern : \E d \in (-MaxSkew) .. MaxSkew :
          LET b == Pattern(id, ExpectedLen("CipherText::from_bytes", DIM) + d)
          IN /\ input' = b
             /\ IF CipherText_from_bytes_panics(DIM, b)
                THEN outcome' = <<"CipherText::from_bytes", "panic">> /\ loaded' = <<>>
                ELSE /\ outcome' = <<"CipherText::from_bytes", "returned">>
                     /\ loaded' = CipherText_from_bytes(DIM, b)
    /\ pc' = "deserialized"
    /\ UNCHANGED <<overflow_checks, scalar_vars, poly_vars, DIM, kem_vars, eq_vars>>

NextDeser == LoadKeyPair \/ PublicKeyFromBytes \/ CipherTextFromBytes

SpecDeser == InitDeser /\ [][NextDeser]_vars

\* C6: load_key_pair, PublicKey::from_bytes and CipherText::from_bytes each
\* panic on a byte string of the wrong length, too short or too long, and
\* never return an object built from a prefix of the input.
C6_WrongLengthPanics ==
    (pc = "deserialized" /\ Len(input) # ExpectedLen(outcome[1], DIM)) =>
        outcome[2] = "panic"

----------------------------------------------------------------------------
\* Specification of Coefficient::compress / decompress (compress_1 /
\* decompress_1 for one bit) over every field element and every bit width
\* the crate instantiates

Widths == {1, 4, 5, 10, 11}

InitCompress ==
    /\ pc = "start"
    /\ overflow_checks \in BOOLEAN
    /\ arg_a \in 0 .. (Q - 1)
    /\ arg_rhs \in Widths
    /\ ret = 0
    /\ PolyIdle
    /\ KyberIdle

Compress ==
    /\ pc = "start"
    /\ ret' = IF arg_rhs = 1 THEN compress_1(arg_a) ELSE compress(arg_rhs, arg_a)
    /\ pc' = "compress"
    /\ UNCHANGED <<overflow_checks, arg_a, arg_rhs, poly_vars, kyber_vars>>

Decompress ==
    /\ pc = "compress"
    /\ ret' = IF arg_rhs = 1 THEN decompress_1(ret) ELSE decompress(arg_rhs, ret)
    /\ pc' = "decompress"
    /\ UNCHANGED <<overflow_checks, arg_a, arg_rhs, poly_vars, kyber_vars>>

NextCompress == Compress \/ Decompress

SpecCompress == InitCompress /\ [][NextCompress]_vars

\* C11: for every bit width X in {1, 4, 5, 10, 11} and every x in [0, q),
\* compress<X>(x) = floor((x * 2^X + floor(q/2)) / q) mod 2^X, and
\* decompress<X>(compress<X>(x)) is at distance at most ceil(q / 2^(X+1))
\* from x modulo q.
C11_CompressRoundTrip ==
    /\ pc = "compress" =>
          ret = ((arg_a * (2^arg_rhs) + (Q \div 2)) \div Q) % (2^arg_rhs)
    /\ pc = "decompress" =>
          LET d == (ret - arg_a) % Q
              bound == (Q + 2^(arg_rhs + 1) - 1) \div (2^(arg_rhs + 1))
          IN ret # Panic /\ (d <= bound \/ Q - d <= bound)

C11_Witness ==
    /\ pc = "decompress"
    /\ arg_rhs = 1
    /\ arg_a = Q - 1
    /\ ret = 0

----------------------------------------------------------------------------
\* Specification of the block layouts: PolyBlock::compress_X followed by
\* PolyBlock::decompress_X on one block of 8 coefficients

\* the X-bit codes of a block: one bit set in one coefficient, one bit clear
\* in one coefficient, and dense patterns
BlockCodes(X) ==
    { [j \in 0 .. 7 |-> IF j = i THEN 2^b ELSE 0] : i \in 0 .. 7, b \in 0 .. (X - 1) }
    \cup { [j \in 0 .. 7 |-> IF j = i THEN 2^X - 1 - 2^b ELSE 2^X - 1] :
              i \in 0 .. 7, b \in 0 .. (X - 1) }
    \cup { [j \in 0 .. 7 |-> ((s * 1237 + 911) * (j + 1) * (j + s) + 17 * s) % (2^X)] :
              s \in 0 .. MaxPattern }

InitBlock ==
    /\ pc = "start"
    /\ overflow_checks \in BOOLEAN
    /\ arg_a = 0 /\ ret = 0
    /\ arg_rhs \in Widths
    /\ \E code \in BlockCodes(arg_rhs) :
          poly_a = [j \in 0 .. 7 |-> IF arg_rhs = 1 THEN decompress_1(code[j])
                                     ELSE decompress(arg_rhs, code[j])]
    /\ poly_b = <<>> /\ ntt_a = <<>> /\ ntt_b = <<>>
    /\ prod = <<>> /\ inv_prod = <<>> /\ round_trip = <<>>
    /\ KyberIdle

BlockCompress ==
    /\ pc = "start"
    /\ input' = IF arg_rhs = 1 THEN << PolyBlock_compress_1(poly_a, 0) >>
                ELSE PolyBlock_compress(arg_rhs, poly_a, 0)
    /\ pc' = "block_compress"
    /\ UNCHANGED <<overflow_checks, scalar_vars, poly_vars, DIM, kem_vars, eq_vars,
                   outcome, loaded>>

BlockDecompress ==
    /\ pc = "block_compress"
    /\ loaded' = IF arg_rhs = 1 THEN PolyBlock_decompress_1(input[1])
                 ELSE LET block == PolyBlock_decompress(arg_rhs, input, 0)
                      IN [j \in 0 .. 7 |-> block[j + 1]]
    /\ pc' = "block_decompress"
    /\ UNCHANGED <<overflow_checks, scalar_vars, poly_vars, DIM, kem_vars, eq_vars,
                   input, outcome>>

NextBlock == BlockCompress \/ BlockDecompress

SpecBlock == InitBlock /\ [][NextBlock]_vars

\* C12: for each X in {1, 4, 5, 10, 11} and every block of 8 coefficients in
\* the image of decompress<X>, decompress_X(compress_X(block)) = block, and
\* the X-bit code of coefficient i occupies bits [i*X, (i+1)*X) of the
\* little-endian bytes written.
C12_BlockRoundTrip ==
    /\ pc \in {"block_compress", "block_decompress"} =>
          /\ Len(input) = arg_rhs
          /\ \A i \in 0 .. 7 : \A b \in 0 .. (arg_rhs - 1) :
                LET k == i * arg_rhs + b
                    code == IF arg_rhs = 1 THEN compress_1(poly_a[i])
                            ELSE compress(arg_rhs, poly_a[i])
                IN Shr(input[(k \div 8) + 1], k % 8) % 2 = Shr(code, b) % 2
    /\ pc = "block_decompress" => loaded = poly_a

C12_Witness ==
    /\ pc = "block_decompress"
    /\ arg_rhs = 11
    /\ poly_a[2] = decompress(11, 2^10)
    /\ input[5] = 1
    /\ loaded[2] = poly_a[2]

----------------------------------------------------------------------------
\* Specification of the 12-bit layout: Poly::to_bytes followed by
\* Poly::from_bytes

\* stored values at the edges of the ranges pack and the 12-bit fields
\* distinguish
EdgeCoeffs == { -Q - 1, -Q, -1, Q - 1, 2^12 - 1, 2^12 }

EdgeIndices == {0, 1, 7, 8, N - 1}

InitPolyBytes ==
    /\ pc = "start"
    /\ overflow_checks \in BOOLEAN
    /\ ScalarIdle
    /\ poly_a \in { Dense(s) : s \in 0 .. MaxDense }
                  \cup { Small(s) : s \in 0 .. MaxDense }
                  \cup { Monomial(c, i) : c \in EdgeCoeffs, i \in EdgeIndices }
    /\ poly_b = <<>> /\ ntt_a = <<>> /\ ntt_b = <<>>
    /\ prod = <<>> /\ inv_prod = <<>> /\ round_trip = <<>>
    /\ KyberIdle

PolyToBytes ==
    /\ pc = "start"
    /\ input' = Poly_to_bytes(poly_a)
    /\ pc' = "to_bytes"
    /\ UNCHANGED <<overflow_checks, scalar_vars, poly_vars, DIM, kem_vars, eq_vars,
                   outcome, loaded>>

PolyFromBytes ==
    /\ pc = "to_bytes"
    /\ ~Poly_from_bytes_panics(input)
    /\ loaded' = Poly_from_bytes(input)
    /\ pc' = "from_bytes"
    /\ UNCHANGED <<overflow_checks, scalar_vars, poly_vars, DIM, kem_vars, eq_vars,
                   input, outcome>>

NextPolyBytes == PolyToBytes \/ PolyFromBytes

SpecPolyBytes == InitPolyBytes /\ [][NextPolyBytes]_vars

\* C13 as stated: for any polynomial p, Poly::from_bytes of the 384 bytes
\* p.to_bytes writes is equal to p, coefficient by coefficient as stored
\* 16-bit values.
C13_PolyBytesRoundTrip ==
    pc = "from_bytes" => (Len(input) = 384 /\ loaded = poly_a)

\* C13 amended: p.to_bytes writes 384 bytes, and for any polynomial p whose
\* stored coefficients are all in [-q, 2^12), Poly::from_bytes reads back
\* every coefficient in [0, 2^12) unchanged and every coefficient c in
\* [-q, 0) as c + q; so the result equals p when all of p's coefficients
\* are in [0, 2^12), and is congruent to p modulo q otherwise.
C13_PolyBytesRoundTripCanonical ==
    pc = "from_bytes" =>
        /\ Len(input) = 384
        /\ (\A j \in Coeffs : poly_a[j] >= -Q /\ poly_a[j] < 2^12) =>
              \A j \in Coeffs :
                 loaded[j] = IF poly_a[j] < 0 THEN poly_a[j] + Q ELSE poly_a[j]

C13_Witness ==
    /\ pc = "from_bytes"
    /\ poly_a[N - 1] = -1
    /\ loaded[N - 1] = Q - 1
    /\ loaded[0] = 0

----------------------------------------------------------------------------
\* Specification of the parameter-set dispatch: the noise polynomials that
\* indcpa::key_pair and indcpa::encapsulate sample, nonce by nonce, and the
\* rates CipherText::to_bytes compresses at.  arg_a is the nonce, arg_rhs the
\* I of Poly::get_noise::<Shake256, I> (I = 2 * eta bytes per block).

InitNoise ==
    /\ pc = "start"
    /\ overflow_checks \in BOOLEAN
    /\ ScalarIdle /\ PolyIdle /\ KemIdle /\ EqIdle /\ DeserIdle
    /\ DIM \in Dims

\* key_pair: Config::get_noise(&noise_seed, i) and
\* Config::get_noise(&noise_seed, DIM + i) for i in 0..DIM
KeyPairNoise ==
    /\ pc = "start"
    /\ \E s \in 1 .. MaxSeed : \E nonce \in 0 .. (2 * DIM - 1) :
          /\ sid' = s
          /\ arg_a' = nonce
          /\ arg_rhs' = NoiseBytes(DIM)
          /\ poly_a' = get_noise(NoiseBytes(DIM), Seed(s), nonce)
    /\ pc' = "key_pair"
    /\ UNCHANGED <<overflow_checks, ret, poly_b, ntt_a, ntt_b, prod, inv_prod,
                   round_trip, DIM, sk, pk, ct, ss, tamper, wire, received, dec,
                   prev, runs, eq_vars, deser_vars>>

\* encapsulate: Config::get_noise(noise_seed, i) for i in 0..DIM, then
\* Poly::get_noise::<Shake256, 4>(noise_seed, i + DIM) and (noise_seed, 2 * DIM)
EncapsulateNoise ==
    /\ pc = "start"
    /\ \E s \in 1 .. MaxSeed : \E nonce \in 0 .. (2 * DIM) :
          LET I == IF nonce < DIM THEN NoiseBytes(DIM) ELSE 4
          IN /\ sid' = s
             /\ arg_a' = nonce
             /\ arg_rhs' = I
             /\ poly_a' = get_noise(I, Seed(s), nonce)
    /\ pc' = "encapsulate"
    /\ UNCHANGED <<overflow_checks, ret, poly_b, ntt_a, ntt_b, prod, inv_prod,
                   round_trip, DIM, sk, pk, ct, ss, tamper, wire, received, dec,
                   prev, runs, eq_vars, deser_vars>>

\* CipherText::to_bytes of a ciphertext whose polynomials are all poly_a
NoiseToBytes ==
    /\ pc = "encapsulate"
    /\ input' = CipherText_to_bytes(DIM, [poly_vector |-> [i \in 1 .. DIM |-> poly_a],
                                          poly |-> poly_a])
    /\ pc' = "to_bytes"
    /\ UNCHANGED <<overflow_checks, scalar_vars, poly_vars, DIM, kem_vars, eq_vars,
                   outcome, loaded>>

NextNoise == KeyPairNoise \/ EncapsulateNoise \/ NoiseToBytes

SpecNoise == InitNoise /\ [][NextNoise]_vars

\* the sampled polynomial is in the range of CBD_eta for I = 2 * eta
NoiseInRange == \A j \in Coeffs : poly_a[j] >= -(arg_rhs \div 2) /\ poly_a[j] <= arg_rhs \div 2

\* the ciphertext bytes are k polynomials at du bits and one at dv bits
CompressedAt(du, dv) ==
    /\ Len(input) = 32 * (DIM * du + dv)
    /\ \A j \in Coeffs :
          /\ Poly_decompress(du, SubSeq(input, 1, 32 * du))[j]
                = decompress(du, compress(du, poly_a[j]))
          /\ Poly_decompress(dv, SubSeq(input, 32 * DIM * du + 1, Len(input)))[j]
                = decompress(dv, compress(dv, poly_a[j]))

\* C14 as stated: for k = 2, 3, 4 key generation samples s and e with noise
\* width 3, 2, 2; encapsulation samples all its noise (nonces 0..2k) with
\* width 2 for every k; the ciphertext is compressed at (du, dv) = (10, 4),
\* (10, 4), (11, 5).
C14_DispatchTable ==
    /\ pc = "key_pair" => (arg_rhs = 2 * (IF DIM = 2 THEN 3 ELSE 2) /\ NoiseInRange)
    /\ pc = "encapsulate" => (arg_rhs = 2 * 2 /\ NoiseInRange)
    /\ pc = "to_bytes" => CompressedAt(IF DIM = 4 THEN 11 ELSE 10, IF DIM = 4 THEN 5 ELSE 4)

\* C14 amended: key generation samples s and e with width 3, 2, 2;
\* encapsulation samples r (nonces 0..k-1) with the same width 3, 2, 2 as key
\* generation and e1, e2 (nonces k..2k) with width 2; the ciphertext is
\* compressed at (10, 4), (10, 4), (11, 5).
C14_DispatchByNonce ==
    /\ pc = "key_pair" => (arg_rhs = 2 * (IF DIM = 2 THEN 3 ELSE 2) /\ NoiseInRange)
    /\ pc = "encapsulate" =>
          /\ arg_rhs = 2 * (IF DIM = 2 /\ arg_a < DIM THEN 3 ELSE 2)
          /\ NoiseInRange
    /\ pc = "to_bytes" => CompressedAt(IF DIM = 4 THEN 11 ELSE 10, IF DIM = 4 THEN 5 ELSE 4)

C14_Witness ==
    /\ pc = "encapsulate"
    /\ DIM = 2
    /\ arg_a = 0
    /\ arg_rhs = 6
    /\ \E j \in Coeffs : poly_a[j] = 3 \/ poly_a[j] = -3

----------------------------------------------------------------------------
\* coefficient.rs: Coefficient::zeta, the function the table ZETAS was
\* generated with

\* reverse_bits that returns i unchanged
reverse_bits_identity(i, bits) == i

\* r *= 2; r |= i % 2; i /= 2, `bits` times
RECURSIVE reverse_bits(_, _)
reverse_bits(i, bits) ==
    IF bits = 0 THEN 0
    ELSE (i % 2) * (2^(bits - 1)) + reverse_bits(i \div 2, bits - 1)

\* tmp(0) = MONT, tmp(i) = tmp(i - 1).mul(m) with m = (MONT * 17) % Q, the
\* remainder taking the sign of the dividend: tmp_mul(z, n) is z after n
\* of these multiplications (the first n \div 2 of them, then the rest)
RECURSIVE tmp_mul(_, _)
tmp_mul(z, n) ==
    IF n = 0 THEN z
    ELSE IF n = 1 THEN mul(z, MONT * 17 - Q * TruncDiv(MONT * 17, Q))
    ELSE LET half == tmp_mul(z, n \div 2)
         IN Strict(half, tmp_mul(half, n - n \div 2))

tmp(i) == tmp_mul(MONT, i)

zeta(i, bits) ==
    LET z == tmp(reverse_bits(i, bits))
    IN IF z > Q \div 2 THEN AsI16(z - Q)
       ELSE IF z < TruncDiv(-Q, 2) THEN AsI16(z + Q)
       ELSE z

----------------------------------------------------------------------------
\* Specification of Coefficient::zeta(i, 7) for every index of the table

InitZeta ==
    /\ pc = "start"
    /\ overflow_checks \in BOOLEAN
    /\ arg_a \in 0 .. (Len(ZETAS) - 1)
    /\ arg_rhs = 7
    /\ ret = 0
    /\ PolyIdle
    /\ KyberIdle

CoefficientZeta ==
    /\ pc = "start"
    /\ ret' = zeta(arg_a, arg_rhs)
    /\ pc' = "zeta"
    /\ UNCHANGED <<overflow_checks, arg_a, arg_rhs, poly_vars, kyber_vars>>

NextZeta == CoefficientZeta

SpecZeta == InitZeta /\ [][NextZeta]_vars

\* C15: for every i in 0..128, Coefficient::zeta(i, 7) is the table entry
\* ZETAS[i] the NTT uses, and it is the centered representative, in
\* [-q/2, q/2], of 17^bitrev7(i) * 2^16 mod q.
C15_ZetaIsTable ==
    pc = "zeta" =>
        LET bit(b) == (arg_a \div (2^b)) % 2
            bitrev7 == 64 * bit(0) + 32 * bit(1) + 16 * bit(2) + 8 * bit(3)
                       + 4 * bit(4) + 2 * bit(5) + bit(6)
        IN /\ Len(ZETAS) = 128
           /\ ret = ZETAS[arg_a + 1]
           /\ ret >= -(Q \div 2) /\ ret <= Q \div 2
           /\ (ret - PowMod(17, bitrev7, Q) * (2^16)) % Q = 0

C15_Witness ==
    /\ pc = "zeta"
    /\ arg_a = 1
    /\ ret = -758
    /\ Zeta(arg_a) = -758

C17_KdfKeyAndHash ==
    pc = "decapsulate" =>
        LET c  == split(Sha3_512(dec.message \o pk.hash))
            c2 == indcpa_encapsulate(DIM, c[2], dec.message, pk.inner)
        IN /\ dec.flag = ct_eq(DIM, c2, received)
           /\ Len(dec.kdf_key) = 32
           /\ \A i \in 1 .. 32 :
                 dec.kdf_key[i] = IF dec.flag THEN c[1][i] ELSE sk.reject[i]
           /\ dec.kdf_ct = CipherText_to_bytes(DIM, c2)
           /\ dec.ss = Shake256(dec.kdf_key \o Sha3_256(dec.kdf_ct), 32)
           /\ Len(dec.ss) = 32

\* a rejected ciphertext: the key is z, and the bytes hashed are not the
\* bytes received
C17_Witness ==
    /\ pc = "decapsulate"
    /\ ~dec.flag
    /\ dec.kdf_key = sk.reject
    /\ dec.kdf_ct # wire
    /\ tamper[1] = "flip"

\* C18: with A[i][j] = get_uniform(rho, i, j) the cached matrix, key
\* generation computes t_i from column i (the sum over j of A[j][i] * s_j)
\* and encryption computes u_i from row i (the sum over j of A[i][j] * r_j),
\* for k in {2, 3, 4} and all i, j in 0..k-1.
C18_TransposedMatrix ==
    /\ pc = "key_pair" =>
          LET c == split(Sha3_512(KeySeed(sid).main))
          IN /\ pk.inner.seed = c[1]
             /\ \A i \in 0 .. (DIM - 1) : \A j \in 0 .. (DIM - 1) :
                   pk.inner.matrix[i + 1][j + 1] = get_uniform(c[1], i, j)
             /\ \A i \in 0 .. (DIM - 1) :
                   pk.inner.poly_vector[i + 1] =
                      Poly_barrett_reduce(add_assign(
                          Poly_montgomery_reduce(mul_fold_montgomery(
                              [j \in 1 .. DIM |-> get_uniform(c[1], j - 1, i)],
                              sk.inner.poly_vector)),
                          ntt(get_noise(NoiseBytes(DIM), c[2], DIM + i))))
    /\ pc = "encapsulate" =>
          LET c  == split(Sha3_512(Sha3_256(Seed(4 * sid + 2)) \o pk.hash))
              sp == Collect([j \in 1 .. DIM |-> ntt(get_noise(NoiseBytes(DIM), c[2], j - 1))])
          IN \A i \in 0 .. (DIM - 1) :
                ct.poly_vector[i + 1] =
                   Poly_barrett_reduce(add_assign(
                       inv_ntt(mul_fold_montgomery(
                           [j \in 1 .. DIM |-> get_uniform(pk.inner.seed, i, j - 1)], sp)),
                       get_noise(4, c[2], i + DIM)))

\* the matrix is not symmetric, so rows and columns give different sums
C18_Witness ==
    /\ pc = "encapsulate"
    /\ DIM = 3
    /\ pk.inner.matrix[1][3] # pk.inner.matrix[3][1]
    /\ pk.inner.matrix[1][3] = get_uniform(pk.inner.seed, 0, 2)

----------------------------------------------------------------------------
\* array.rs, generator.rs: PolyBlock::new(&mut it) on the iterator
\* Buf.filter(< Q).map(Coefficient) that Poly::get_uniform shares between
\* its 32 blocks

\* Array::new polling the iterator once more after its n-th item, as a
\* `take` that pulls before it counts would: the next accepted word is lost
RECURSIVE Array_new_polling(_, _, _, _)
Array_new_polling(stream, pos, n, items) ==
    IF Accepted(Buf_word(stream, pos))
    THEN IF n = 0 THEN [items |-> items, pos |-> pos + 1]
         ELSE Array_new_polling(stream, pos + 1, n - 1,
                                Append(items, Buf_word(stream, pos)))
    ELSE Array_new_polling(stream, pos + 1, n, items)

\* Array::new: `for (i, x) in it.enumerate().take(N)` pulls words from
\* position pos of the stream, storing the accepted ones, until N are
\* stored; Take::next does not poll the iterator once its count is used up.
\* Gives the items and the position of the next word of the stream.
RECURSIVE Array_new(_, _, _, _)
Array_new(stream, pos, n, items) ==
    IF n = 0 THEN [items |-> items, pos |-> pos]
    ELSE IF Accepted(Buf_word(stream, pos))
         THEN Array_new(stream, pos + 1, n - 1, Append(items, Buf_word(stream, pos)))
         ELSE Array_new(stream, pos + 1, n, items)

----------------------------------------------------------------------------
\* Specification of Poly::get_uniform, block by block.  input is the XOF
\* stream, arg_a the number of words Buf::next has returned, arg_rhs the
\* number of blocks built, loaded the coefficients stored so far, outcome
\* the (i, j) of the matrix entry.

InitUniform ==
    /\ pc = "start"
    /\ overflow_checks \in BOOLEAN
    /\ ScalarIdle /\ PolyIdle /\ KemIdle /\ EqIdle
    /\ DIM = 4
    /\ outcome \in (0 .. (DIM - 1)) \X (0 .. (DIM - 1))
    /\ input = <<>> /\ loaded = <<>>

\* Buf::new: the XOF keyed with seed, i, j
BufNew ==
    /\ pc = "start"
    /\ \E s \in 1 .. MaxSeed :
          /\ sid' = s
          /\ input' = Shake128(Seed(s) \o << outcome[1] % 256, outcome[2] % 256 >>,
                               3 * XofChunks)
    /\ pc' = "Buf::new"
    /\ UNCHANGED <<overflow_checks, scalar_vars, poly_vars, DIM, sk, pk, ct, ss,
                   tamper, wire, received, dec, prev, runs, eq_vars, outcome, loaded>>

\* one PolyBlock::new(&mut it) of the (0..SIZE).map(...)
PolyBlockNew ==
    /\ pc \in {"Buf::new", "PolyBlock::new"}
    /\ arg_rhs < SIZE
    /\ LET block == Array_new(input, arg_a, 8, <<>>)
       IN /\ loaded' = loaded \o block.items
          /\ arg_a' = block.pos
    /\ arg_rhs' = arg_rhs + 1
    /\ pc' = "PolyBlock::new"
    /\ UNCHANGED <<overflow_checks, ret, poly_vars, DIM, kem_vars, eq_vars,
                   input, outcome>>

NextUniform == BufNew \/ PolyBlockNew

SpecUniform == InitUniform /\ [][NextUniform]_vars

\* the 12-bit words of the first n 3-byte chunks of the stream, two per
\* chunk, low word first
StreamWords(n) ==
    [w \in 1 .. 2 * n |->
        LET o == 3 * ((w - 1) \div 2)
            t == input[o + 1] + (2^8) * input[o + 2] + (2^16) * input[o + 3]
        IN IF w % 2 = 1 THEN t % (2^12) ELSE t \div (2^12)]

BelowQ(x) == x < Q

\* C19: get_uniform(seed, i, j) returns the first 256 accepted words of the
\* XOF stream in stream order: two 12-bit words per 3-byte chunk, low word
\* first, a word accepted iff it is < q; after every block the coefficients
\* stored are exactly the accepted words among the words drawn so far, so
\* none is skipped or duplicated at a block boundary; every coefficient is
\* in [0, q).
C19_UniformInStreamOrder ==
    pc = "PolyBlock::new" =>
        LET drawn == SubSeq(StreamWords((arg_a + 1) \div 2), 1, arg_a)
        IN /\ loaded = SelectSeq(drawn, BelowQ)
           /\ Len(loaded) = 8 * arg_rhs
           /\ BelowQ(drawn[arg_a])
           /\ \A c \in 1 .. Len(loaded) : loaded[c] >= 0 /\ loaded[c] < Q
           /\ arg_rhs = SIZE =>
                 get_uniform(Seed(sid), outcome[1], outcome[2])
                    = [c \in Coeffs |-> loaded[c + 1]]

\* a block boundary where the next word of the stream is a rejected one
C19_Witness ==
    /\ pc = "PolyBlock::new"
    /\ arg_rhs > 0 /\ arg_rhs < SIZE
    /\ arg_a > 8 * arg_rhs
    /\ ~BelowQ(StreamWords((arg_a + 2) \div 2)[arg_a + 1])

----------------------------------------------------------------------------
\* Specification of the two NTT loops, one `while start < 256` iteration at
\* a time.  poly_b is the argument, poly_a the working copy r, arg_a the
\* table counter k, arg_rhs the layer length len, ret the block's `start`,
\* and loaded the <<k, len, start>> of every iteration so far.

\* the inverse's `let mut k` set to the table's length
InvNttFirstZeta_len == Len(ZETAS)

\* `let mut k = 127;` of the inverse NTT
InvNttFirstZeta == 127

\* after `let mut k = 1usize; let mut len = 128;` of the forward NTT, or
\* `let mut k = 127; let mut len = 2;` of the inverse
InitNttLoop ==
    /\ overflow_checks \in BOOLEAN
    /\ \/ pc = "ntt" /\ arg_a = 1 /\ arg_rhs = 128
       \/ pc = "inverse ntt" /\ arg_a = InvNttFirstZeta /\ arg_rhs = 2
    /\ ret = 0
    /\ poly_b \in { Dense(s) : s \in 1 .. MaxDense }
    /\ poly_a = poly_b
    /\ ntt_a = <<>> /\ ntt_b = <<>> /\ prod = <<>> /\ inv_prod = <<>>
    /\ round_trip = <<>>
    /\ KyberIdle

\* forward: zeta = ZETAS[k]; k += 1; the butterflies for j in
\* start..start + len; start = j + len; and `len >>= 1` with start = 0 when
\* that ends the inner `while`
ForwardBlock ==
    /\ pc = "ntt"
    /\ arg_rhs >= 2
    /\ IF arg_a \notin 0 .. (Len(ZETAS) - 1) \/ ret + 2 * arg_rhs > N
       THEN pc' = "panic" /\ UNCHANGED <<scalar_vars, poly_a, loaded, examined>>
       ELSE /\ examined' = examined \cup
                               ntt_differences(poly_a, Zeta(arg_a), arg_rhs, ret)
            /\ poly_a' = Collect([i \in Coeffs |->
                  IF i >= ret /\ i < ret + arg_rhs
                  THEN add(poly_a[i], mul(Zeta(arg_a), poly_a[i + arg_rhs]))
                  ELSE IF i >= ret + arg_rhs /\ i < ret + 2 * arg_rhs
                  THEN sub(poly_a[i - arg_rhs], mul(Zeta(arg_a), poly_a[i]))
                  ELSE poly_a[i]])
            /\ loaded' = Append(loaded, <<arg_a, arg_rhs, ret>>)
            /\ arg_a' = arg_a + 1
            /\ IF ret + 2 * arg_rhs < N
               THEN ret' = ret + 2 * arg_rhs /\ arg_rhs' = arg_rhs
               ELSE ret' = 0 /\ arg_rhs' = arg_rhs \div 2
            /\ pc' = "ntt"
    /\ UNCHANGED <<overflow_checks, poly_b, ntt_a, ntt_b, prod, inv_prod, round_trip,
                   DIM, kem_vars, ct_self, ct_other, eq, input, outcome>>

\* r.barrett_reduce() once `len >= 2` fails
ForwardReturn ==
    /\ pc = "ntt"
    /\ arg_rhs < 2
    /\ ntt_a' = Poly_barrett_reduce(poly_a)
    /\ pc' = "ntt returned"
    /\ UNCHANGED <<overflow_checks, scalar_vars, poly_a, poly_b, ntt_b, prod, inv_prod,
                   round_trip, kyber_vars>>

\* inverse: zeta = ZETAS[k]; k -= 1 (usize: below 0 it panics with overflow
\* checks and wraps without); the butterflies; start = j + len; and
\* `len <<= 1` with start = 0 when that ends the inner `while`
InverseBlock ==
    /\ pc = "inverse ntt"
    /\ arg_rhs <= 128
    /\ IF \/ arg_a \notin 0 .. (Len(ZETAS) - 1)
          \/ ret + 2 * arg_rhs > N
          \/ (arg_a = 0 /\ overflow_checks)
       THEN pc' = "panic" /\ UNCHANGED <<scalar_vars, poly_a, loaded, examined>>
       ELSE /\ examined' = examined \cup inv_ntt_differences(poly_a, arg_rhs, ret)
            /\ poly_a' = Collect([i \in Coeffs |->
                  IF i >= ret /\ i < ret + arg_rhs
                  THEN add(poly_a[i], poly_a[i + arg_rhs])
                  ELSE IF i >= ret + arg_rhs /\ i < ret + 2 * arg_rhs
                  THEN mul(Zeta(arg_a), sub(poly_a[i], poly_a[i - arg_rhs]))
                  ELSE poly_a[i]])
            /\ loaded' = Append(loaded, <<arg_a, arg_rhs, ret>>)
            /\ arg_a' = IF arg_a = 0 THEN -1 ELSE arg_a - 1
            /\ IF ret + 2 * arg_rhs < N
               THEN ret' = ret + 2 * arg_rhs /\ arg_rhs' = arg_rhs
               ELSE ret' = 0 /\ arg_rhs' = arg_rhs * 2
            /\ pc' = "inverse ntt"
    /\ UNCHANGED <<overflow_checks, poly_b, ntt_a, ntt_b, prod, inv_prod, round_trip,
                   DIM, kem_vars, ct_self, ct_other, eq, input, outcome>>

\* the pass `r[j] = r[j] * Coefficient::F` once `len <= 128` fails
InverseReturn ==
    /\ pc = "inverse ntt"
    /\ arg_rhs > 128
    /\ inv_prod' = Collect([j \in Coeffs |-> mul(poly_a[j], F)])
    /\ pc' = "inverse ntt returned"
    /\ UNCHANGED <<overflow_checks, scalar_vars, poly_a, poly_b, ntt_a, ntt_b, prod,
                   round_trip, kyber_vars>>

NextNttLoop == ForwardBlock \/ ForwardReturn \/ InverseBlock \/ InverseReturn

SpecNttLoop == InitNttLoop /\ [][NextNttLoop]_vars

\* every iteration so far read a table index in 0..128 and touched
\* coefficient indices j and j + len in 0..256
IterationsInBounds ==
    \A n \in 1 .. Len(loaded) :
       /\ loaded[n][1] >= 0 /\ loaded[n][1] < 128
       /\ loaded[n][3] >= 0
       /\ loaded[n][3] + 2 * loaded[n][2] - 1 < 256

\* C20: the forward NTT iterates layer lengths 128, 64, ..., 2 and reads
\* ZETAS at indices 1, 2, ..., 127, each once, in increasing order; the
\* inverse iterates 2, 4, ..., 128 and reads ZETAS at 127, 126, ..., 1, each
\* once, in decreasing order; every table index and every coefficient index
\* j and j + len stays in bounds, and the inverse's counter never goes
\* below 0.
C20_NttLoopIndices ==
    /\ pc # "panic"
    /\ arg_a >= 0
    /\ IterationsInBounds
    /\ pc \in {"ntt", "ntt returned"} =>
          /\ \A n \in 1 .. Len(loaded) : loaded[n][1] = n
          /\ \A n \in 1 .. (Len(loaded) - 1) :
                \/ loaded[n + 1][2] = loaded[n][2]
                \/ loaded[n + 1][2] * 2 = loaded[n][2] /\ loaded[n + 1][3] = 0
    /\ pc = "ntt returned" =>
          /\ Len(loaded) = 127
          /\ { loaded[n][2] : n \in 1 .. 127 } = {128, 64, 32, 16, 8, 4, 2}
          /\ loaded[1][2] = 128 /\ loaded[127][2] = 2
          /\ ntt_a = ntt(poly_b)
    /\ pc \in {"inverse ntt", "inverse ntt returned"} =>
          /\ \A n \in 1 .. Len(loaded) : loaded[n][1] = 128 - n
          /\ \A n \in 1 .. (Len(loaded) - 1) :
                \/ loaded[n + 1][2] = loaded[n][2]
                \/ loaded[n + 1][2] = loaded[n][2] * 2 /\ loaded[n + 1][3] = 0
    /\ pc = "inverse ntt returned" =>
          /\ Len(loaded) = 127
          /\ { loaded[n][2] : n \in 1 .. 127 } = {2, 4, 8, 16, 32, 64, 128}
          /\ loaded[1][2] = 2 /\ loaded[127][2] = 128
          /\ arg_a = 0
          /\ inv_prod = inv_ntt(poly_b)

\* the inverse has returned: its last read was ZETAS[1] and k ended at 0
C20_Witness ==
    /\ pc = "inverse ntt returned"
    /\ loaded[127] = <<1, 128, 0>>
    /\ arg_a = 0

----------------------------------------------------------------------------
\* Specification of the 16-bit subtractions of indcpa::decapsulate: the
\* forward NTT of each ciphertext polynomial block by block, the products
\* folded with the secret key, the inverse NTT block by block, and `mp -= v`.
\* A second entry starts the inverse NTT on a Barrett-reduced polynomial.
\* `examined` collects the exact value of every difference handed to
\* Coefficient::sub.

\* number of polynomials drawn from each family of inputs
MaxSub == 2

\* a polynomial with coefficients spread over [-q, q]
Signed(s) == Collect([j \in Coeffs |-> (((s * 977) * j * j + 131 * j + s) % (2 * Q + 1)) - Q])

\* c on the first half of the coefficients and -c on the second
Step(c) == Collect([j \in Coeffs |-> IF j < 128 THEN c ELSE -c])

\* forward-NTT inputs with |coefficient| <= q: decompressed ciphertext
\* coefficients, CBD noise, and signed values up to the edges
ForwardInputs ==
    { Dense(s) : s \in 1 .. MaxSub } \cup { Small(s) : s \in 1 .. MaxSub }
    \cup { Signed(s) : s \in 1 .. MaxSub } \cup { Step(Q) }

InitSub ==
    /\ overflow_checks \in BOOLEAN
    /\ DIM = 2
    /\ pc = "key_pair"
    /\ sk = <<>>
    /\ \/ /\ arg_a = 1 /\ arg_rhs = 128
          /\ ct \in { [poly_vector |-> << b, Dense(MaxSub + 1) >>,
                       poly |-> Dense(MaxSub + 2)] : b \in ForwardInputs }
          /\ poly_b = ct.poly_vector[1]
       \/ /\ arg_a = InvNttFirstZeta /\ arg_rhs = 2
          /\ ct = [poly_vector |-> << Dense(1), Dense(MaxSub + 1) >>,
                   poly |-> Dense(MaxSub + 2)]
          /\ poly_b \in { Step(Q \div 8), Step(Q \div 2) }
                        \cup { Poly_barrett_reduce(p) :
                                 p \in { Signed(s) : s \in 1 .. MaxSub } }
    /\ poly_a = poly_b
    /\ ret = 0
    /\ ntt_a = <<>> /\ ntt_b = <<>> /\ prod = <<>> /\ inv_prod = <<>>
    /\ round_trip = <<>>
    /\ sid = 0 /\ pk = <<>> /\ ss = <<>> /\ tamper = <<>> /\ wire = <<>>
    /\ received = <<>> /\ dec = <<>> /\ prev = <<>> /\ runs = 0
    /\ EqIdle /\ DeserIdle

\* the secret key of key_pair: `get_noise(&noise_seed, i).ntt()` for each i,
\* here on two small signed polynomials as the noise; then the entry chosen
\* initially (arg_a, arg_rhs hold its k and len) starts
SecretKeyNtt ==
    /\ pc = "key_pair"
    /\ sk' = [poly_vector |-> << ntt(Small(MaxSub + 1)), ntt(Small(MaxSub + 2)) >>]
    /\ pc' = IF arg_rhs = 128 THEN "ntt" ELSE "inverse ntt"
    /\ UNCHANGED <<overflow_checks, scalar_vars, poly_vars, DIM, sid, pk, ct, ss, tamper,
                   wire, received, dec, prev, runs, eq_vars, deser_vars>>

\* one step of the fold of mul_fold_montgomery over the lazily transformed
\* ciphertext vector: the product of sk_pv[i] with the polynomial whose NTT
\* just returned, added to the running sum; then either the NTT of the next
\* ciphertext polynomial starts, or p.barrett_reduce() is handed to the
\* inverse NTT
MulFoldStep ==
    /\ pc = "ntt returned"
    /\ LET i == Len(ntt_b) + 1
           p == mul_montgomery(sk.poly_vector[i], ntt_a)
           r == IF i = 1 THEN p ELSE add_assign(prod, p)
       IN /\ examined' = examined \cup
                            mul_montgomery_differences(sk.poly_vector[i], ntt_a)
          /\ ntt_b' = Append(ntt_b, ntt_a)
          /\ prod' = r
          /\ IF i < DIM
             THEN /\ poly_a' = ct.poly_vector[i + 1]
                  /\ arg_a' = 1 /\ arg_rhs' = 128 /\ ret' = 0
                  /\ pc' = "ntt"
             ELSE /\ poly_a' = Poly_barrett_reduce(r)
                  /\ arg_a' = InvNttFirstZeta /\ arg_rhs' = 2 /\ ret' = 0
                  /\ pc' = "inverse ntt"
    /\ UNCHANGED <<overflow_checks, poly_b, ntt_a, inv_prod, round_trip, DIM, kem_vars,
                   ct_self, ct_other, eq, deser_vars>>

\* `mp -= v; mp.barrett_reduce().to_msg()`
SubAssign ==
    /\ pc = "inverse ntt returned"
    /\ examined' = examined \cup sub_assign_differences(inv_prod, ct.poly)
    /\ round_trip' = sub_assign(inv_prod, ct.poly)
    /\ dec' = to_msg(Poly_barrett_reduce(round_trip'))
    /\ pc' = "decapsulate returned"
    /\ UNCHANGED <<overflow_checks, scalar_vars, poly_a, poly_b, ntt_a, ntt_b, prod,
                   inv_prod, DIM, sid, sk, pk, ct, ss, tamper, wire, received, prev,
                   runs, ct_self, ct_other, eq, deser_vars>>

NextSub ==
    \/ SecretKeyNtt \/ ForwardBlock \/ ForwardReturn \/ MulFoldStep
    \/ InverseBlock \/ InverseReturn \/ SubAssign

SpecSub == InitSub /\ [][NextSub]_vars

\* C21: no subtraction of Coefficient::sub overflows 16 bits inside the
\* forward NTT (inputs with |coefficient| <= q), the inverse NTT (Barrett-
\* reduced inputs), PolyBlock::mul, or the `mp -= v` of decryption: every
\* exact difference lies in [-2^15, 2^15 - 1], so no step panics under overflow
\* checks and the result equals the wrapping difference in both builds.
C21_SubNeverOverflows ==
    /\ \A d \in examined : InI16(d)
    /\ pc # "panic"
    /\ ~HasPanic(poly_a)
    /\ pc = "decapsulate returned" =>
          /\ round_trip = Collect([j \in Coeffs |-> AsI16(inv_prod[j] - ct.poly[j])])
          /\ \A n \in 1 .. Len(dec) : dec[n] \in 0 .. 255

\* decryption ran through after both forward transforms and the inverse (381
\* blocks), and some difference it subtracted left [-2q, 2q]: the forward
\* butterflies accumulate unreduced values
C21_Witness ==
    /\ pc = "decapsulate returned"
    /\ Len(loaded) = 3 * 127
    /\ \E d \in examined : d > 2 * Q \/ d < -(2 * Q)

----------------------------------------------------------------------------
\* Specification of one message coefficient through encryption and
\* decryption: arg_a is the message bit m, arg_rhs the accumulated noise e,
\* ret the coefficient of s*u both sides compute (a Montgomery output in
\* (-q, q)); `ct` is the coefficient v of the ciphertext polynomial and `dec`
\* what decapsulate computes from it.

\* the largest noise the decoding is claimed to tolerate, floor(q / 4) - 1
NoiseTolerance == (Q \div 4) - 1

\* coefficients of s*u at the edges of what montgomery_reduce returns
DecodeProducts == { 0, 1, -1, Q \div 2, -(Q \div 2) - 1, Q - 1, -(Q - 1) }

InitDecode ==
    /\ pc = "start"
    /\ overflow_checks \in BOOLEAN
    /\ arg_a \in {0, 1}
    /\ arg_rhs \in -(NoiseTolerance + 1) .. (NoiseTolerance + 1)
    /\ ret \in DecodeProducts
    /\ PolyIdle
    /\ KyberIdle

\* encapsulate, per coefficient: `v += noise; v += from_msg(message)` on the
\* coefficient of s*u; the receiver gets it as computed or, after
\* serialization, as a value in [0, q)
EncryptCoefficient ==
    /\ pc = "start"
    /\ LET v == add(add(ret, arg_rhs), decompress_1(arg_a))
       IN ct' \in { v, pack(v) }
    /\ pc' = "encrypted"
    /\ UNCHANGED <<overflow_checks, scalar_vars, poly_vars, DIM, sid, sk, pk, ss, tamper,
                   wire, received, dec, prev, runs, eq_vars, deser_vars>>

\* decapsulate, per coefficient: `mp -= v; mp.barrett_reduce().to_msg()`
DecryptCoefficient ==
    /\ pc = "encrypted"
    /\ dec' = [difference |-> sub(ret, ct),
               bit |-> compress_1(barrett_reduce(sub(ret, ct)))]
    /\ pc' = "decrypted"
    /\ UNCHANGED <<overflow_checks, scalar_vars, poly_vars, DIM, sid, sk, pk, ct, ss,
                   tamper, wire, received, prev, runs, eq_vars, deser_vars>>

NextDecode == EncryptCoefficient \/ DecryptCoefficient

SpecDecode == InitDecode /\ [][NextDecode]_vars

\* C22: decryption subtracts in the order s*u - v, so it decodes the residue
\* of -(decompress_1(m) + e), and for every bit m and every noise e with
\* |e| <= 831 compress_1 of its Barrett reduction is m; compress_1 gives the
\* same bit for x and for -x mod q, for every x in [0, q) (the residues the
\* decryption reaches here are all of [0, q)).
C22_ReversedDecode ==
    pc = "decrypted" =>
       LET x == pack(barrett_reduce(dec.difference))
       IN /\ x \in 0 .. (Q - 1)
          /\ (x + decompress_1(arg_a) + arg_rhs) % Q = 0
          /\ compress_1(x) = compress_1((Q - x) % Q)
          /\ (arg_rhs >= -NoiseTolerance /\ arg_rhs <= NoiseTolerance) =>
                /\ dec.bit = arg_a
                /\ compress_1(barrett_reduce(-(decompress_1(arg_a) + arg_rhs))) = arg_a

\* bit 1 with the largest tolerated noise: s*u - v is the residue 833, the
\* smallest that still decodes to 1
C22_Witness ==
    /\ pc = "decrypted"
    /\ arg_a = 1 /\ arg_rhs = NoiseTolerance
    /\ pack(barrett_reduce(dec.difference)) = (Q \div 4) + 1
    /\ dec.bit = 1

----------------------------------------------------------------------------
\* Specification of ciphertext bytes through CipherText::from_bytes and back
\* through CipherText::to_bytes, for byte strings of the ciphertext length of
\* each parameter set; and of a single X-bit word through decompress::<X> and
\* compress::<X>, for every word of every width a ciphertext uses

\* byte strings of length `len` with every byte equal to `byte`
Filled(byte, len) == Collect([i \in 1 .. len |-> byte])

InitCtBytes ==
    /\ overflow_checks \in BOOLEAN
    /\ PolyIdle /\ KemIdle /\ EqIdle
    /\ \/ /\ pc = "bytes"
          /\ DIM \in Dims
          /\ input \in { Pattern(id, CipherTextLen(DIM)) : id \in 1 .. (8 * MaxPattern) }
                       \cup { Filled(0, CipherTextLen(DIM)), Filled(255, CipherTextLen(DIM)) }
          /\ arg_a = 0 /\ arg_rhs = 0
       \/ /\ pc = "word"
          /\ DIM = 2
          /\ input = <<>>
          /\ arg_rhs \in Widths \ {1}
          /\ arg_a \in 0 .. (2^arg_rhs - 1)
    /\ ret = 0
    /\ outcome = <<>> /\ loaded = <<>>

\* CipherText::from_bytes
CipherTextDeserialize ==
    /\ pc = "bytes"
    /\ IF CipherText_from_bytes_panics(DIM, input)
       THEN outcome' = <<"CipherText::from_bytes", "panic">> /\ loaded' = <<>>
       ELSE /\ outcome' = <<"CipherText::from_bytes", "returned">>
            /\ loaded' = CipherText_from_bytes(DIM, input)
    /\ pc' = "from_bytes"
    /\ UNCHANGED <<overflow_checks, scalar_vars, poly_vars, DIM, kem_vars, eq_vars, input>>

\* CipherText::to_bytes on the object from_bytes returned
CipherTextSerialize ==
    /\ pc = "from_bytes"
    /\ outcome[2] = "returned"
    /\ wire' = CipherText_to_bytes(DIM, loaded)
    /\ pc' = "to_bytes"
    /\ UNCHANGED <<overflow_checks, scalar_vars, poly_vars, DIM, sid, sk, pk, ct, ss,
                   tamper, received, dec, prev, runs, eq_vars, deser_vars>>

\* Coefficient::decompress::<X> on the word arg_a
DecompressWord ==
    /\ pc = "word"
    /\ loaded' = decompress(arg_rhs, arg_a)
    /\ pc' = "word decompressed"
    /\ UNCHANGED <<overflow_checks, scalar_vars, poly_vars, DIM, kem_vars, eq_vars,
                   input, outcome>>

\* Coefficient::compress::<X> on the coefficient decompress returned
CompressWord ==
    /\ pc = "word decompressed"
    /\ ret' = compress(arg_rhs, loaded)
    /\ pc' = "word compressed"
    /\ UNCHANGED <<overflow_checks, arg_a, arg_rhs, poly_vars, kyber_vars>>

NextCtBytes ==
    \/ CipherTextDeserialize \/ CipherTextSerialize
    \/ DecompressWord \/ CompressWord

SpecCtBytes == InitCtBytes /\ [][NextCtBytes]_vars

\* C23: for k in {2, 3, 4} and every byte string b of the ciphertext length,
\* CipherText::from_bytes(b) returns and CipherText::to_bytes of it is b
\* again; for every X in {4, 5, 10, 11} and every X-bit word w,
\* compress<X>(decompress<X>(w)) = w, with decompress<X>(w) in [0, q).
C23_CipherTextBytesRoundTrip ==
    /\ pc \in {"from_bytes", "to_bytes"} => outcome[2] = "returned"
    /\ pc = "to_bytes" => wire = input
    /\ pc \in {"word decompressed", "word compressed"} => loaded \in 0 .. (Q - 1)
    /\ pc = "word compressed" => ret = arg_a

\* a Kyber1024 ciphertext of 1568 bytes 0xff (every word 2047 or 31) came
\* back from to_bytes
C23_Witness ==
    /\ pc = "to_bytes"
    /\ DIM = 4
    /\ Len(input) = 1568 /\ input[1] = 255 /\ input[1568] = 255
    /\ loaded.poly_vector[1][0] = Q - 2
    /\ Len(wire) = 1568 /\ wire[1568] = 255

----------------------------------------------------------------------------
\* Specification of a public key through serialization: key_pair,
\* PublicKey::to_bytes, PublicKey::from_bytes, then encapsulate with the
\* same seed under the original key and under the deserialized one. `runs`
\* is the index of the encapsulation seed, `loaded` the deserialized key and
\* `dec` what encapsulate returned under it.

\* number of encapsulation seeds tried per key
EncSeeds == 3

InitPk ==
    /\ pc = "start"
    /\ overflow_checks \in BOOLEAN
    /\ ScalarIdle /\ PolyIdle /\ EqIdle /\ DeserIdle
    /\ DIM \in Dims
    /\ sid \in 1 .. (MaxSeed + 1)
    /\ sk = <<>> /\ pk = <<>> /\ ct = <<>> /\ ss = <<>>
    /\ tamper = <<>> /\ wire = <<>> /\ received = <<>>
    /\ dec = <<>> /\ prev = <<>> /\ runs = 0

\* kem::PublicKey::to_bytes
PublicKeySerialize ==
    /\ pc = "key_pair"
    /\ wire' = indcpa_PublicKey_to_bytes(DIM, pk.inner)
    /\ pc' = "pk to_bytes"
    /\ UNCHANGED <<overflow_checks, scalar_vars, poly_vars, DIM, sid, sk, pk, ct, ss,
                   tamper, received, dec, prev, runs, eq_vars, deser_vars>>

\* kem::PublicKey::from_bytes on the serialized key
PublicKeyDeserialize ==
    /\ pc = "pk to_bytes"
    /\ input' = wire
    /\ IF PublicKey_from_bytes_panics(DIM, wire)
       THEN /\ outcome' = <<"PublicKey::from_bytes", "panic">> /\ loaded' = <<>>
            /\ pc' = "panic"
       ELSE /\ outcome' = <<"PublicKey::from_bytes", "returned">>
            /\ loaded' = PublicKey_from_bytes(DIM, wire)
            /\ pc' = "pk from_bytes"
    /\ UNCHANGED <<overflow_checks, scalar_vars, poly_vars, DIM, kem_vars, eq_vars>>

\* encapsulate(seed, pk) under the key key_pair returned
EncapsulateOriginal ==
    /\ pc = "pk from_bytes"
    /\ \E n \in 1 .. EncSeeds :
          LET e == encapsulate(DIM, Seed(4 * sid + 1 + n), pk)
          IN /\ runs' = n
             /\ ct' = e.ct
             /\ ss' = e.ss
             /\ pc' = IF e.panic THEN "panic" ELSE "encapsulate"
    /\ UNCHANGED <<overflow_checks, scalar_vars, poly_vars, DIM, sid, sk, pk,
                   tamper, wire, received, dec, prev, eq_vars, deser_vars>>

\* encapsulate(seed, pk2) with the same seed under the deserialized key
EncapsulateLoaded ==
    /\ pc = "encapsulate"
    /\ LET e == encapsulate(DIM, Seed(4 * sid + 1 + runs), loaded)
       IN /\ dec' = e
          /\ pc' = IF e.panic THEN "panic" ELSE "encapsulate both"
    /\ UNCHANGED <<overflow_checks, scalar_vars, poly_vars, DIM, sid, sk, pk, ct, ss,
                   tamper, wire, received, prev, runs, eq_vars, deser_vars>>

NextPk ==
    \/ KeyPair \/ PublicKeySerialize \/ PublicKeyDeserialize
    \/ EncapsulateOriginal \/ EncapsulateLoaded

SpecPk == InitPk /\ [][NextPk]_vars

\* C24: for pk from key_pair and pk2 = PublicKey::from_bytes of its
\* serialization, pk2 has the same hash, seed and expanded matrix as pk, its
\* polynomial vector holds the representatives in [0, q) of pk's centered
\* coefficients, and encapsulate with the same seed gives a byte-identical
\* ciphertext and the same shared secret under pk2 as under pk.
C24_PublicKeySurvivesSerialization ==
    /\ pc # "panic"
    /\ pc \in {"pk from_bytes", "encapsulate", "encapsulate both"} =>
          /\ loaded.hash = pk.hash
          /\ loaded.inner.seed = pk.inner.seed
          /\ loaded.inner.matrix = pk.inner.matrix
          /\ \A i \in 1 .. DIM :
                loaded.inner.poly_vector[i] =
                    Collect([j \in Coeffs |-> pack(pk.inner.poly_vector[i][j])])
    /\ pc = "encapsulate both" =>
          /\ CipherText_to_bytes(DIM, dec.ct) = CipherText_to_bytes(DIM, ct)
          /\ dec.ss = ss

\* both encapsulations returned for a key whose stored vector has a
\* negative coefficient, which the deserialized key holds as that value + q
C24_Witness ==
    /\ pc = "encapsulate both"
    /\ DIM = 4
    /\ \E j \in Coeffs :
          /\ pk.inner.poly_vector[1][j] < 0
          /\ loaded.inner.poly_vector[1][j] = pk.inner.poly_vector[1][j] + Q
    /\ Len(dec.ss) = 32 /\ dec.ss = ss

====
